---- MODULE Spec2Model ----
(***************************************************************************)
(* HA-iOS-NextAlarm: the occurrence scheduler (helpers.py) and the         *)
(* per-person state machine / rollover controller (coordinator.py).        *)
(*                                                                         *)
(* Time.  An instant is an integer number of ticks since the epoch; the    *)
(* epoch is 00:00 UTC of a Monday and a day has DayLen ticks.  The active  *)
(* timezone is a fixed offset of Timezone ticks east of UTC, so aware      *)
(* datetimes compare as their instants.                                    *)
(*                                                                         *)
(* Optional values.  Python's None is the empty sequence and a present     *)
(* value x is <<x>>.  Alarm keys are strings of digits, modelled as        *)
(* non-empty sequences of digits, so that sorted() is a real lexical sort. *)
(***************************************************************************)
EXTENDS Integers, Sequences, FiniteSets, TLC

VARIABLES
    calcAlarms, calcNow, calcResult,  \* a scheduler call: its inputs and its result
    helperCall, helperResult,  \* a call of another pure function and its result
    entry_options,      \* ConfigEntry.options of the options flow
    utcnow,             \* dt_util.utcnow(): the wall clock
    person_states,      \* NextAlarmCoordinator._person_states: slug -> PersonState
    time_listeners,     \* live async_track_point_in_time listeners on the bus
    call_later_timers,  \* live async_call_later timers
    lock,               \* NextAlarmCoordinator._lock is held
    listening,          \* the two bus listeners of async_setup are registered
    tasks,              \* tasks created by timer callbacks, not yet started
    saves,              \* operations suspended in `await self._store.async_save`
    store,              \* the persisted snapshot
    token_seq,          \* number of uuid4 tokens minted so far
    alarm_seq,          \* number of alarm-data events applied so far
    effect              \* what the last step did: [op, slug, notified]

calcVars == <<calcAlarms, calcNow, calcResult>>
helperVars == <<helperCall, helperResult>>
flowVars == <<entry_options>>
pureVars == <<calcVars, helperVars, flowVars>>
coordVars == <<utcnow, person_states, time_listeners, call_later_timers,
               lock, listening, tasks, saves, store, token_seq, alarm_seq, effect>>
vars == <<pureVars, coordVars>>

None == <<>>
Some(x) == <<x>>

----------------------------------------------------------------------------
(* Bounds of the model *)

DayLen == 2
MaxNow == 15
MaxBase == 3
MaxAlarms == 2
MaxTime == 2
MaxAlarmEvents == 2
MaxTokens == 2
RefreshTimeout == 1
MaxLines == 3
MaxEntries == 2
\* the configured time zone, as a fixed offset from UTC in ticks
Timezone == 1

(* Program constants *)

\* variant: a lookahead of one week only
LookaheadDays_one_week == 8 - 1
LookaheadDays == 8

----------------------------------------------------------------------------
(* Calendar arithmetic of datetime / tzinfo *)

\* datetime.astimezone(tzinfo): the local wall-clock reading, in ticks
astimezone(instant, tz) == instant + tz

\* datetime.date() of a local reading: the day number
LocalDate(instant, tz) == astimezone(instant, tz) \div DayLen

\* time(hour, minute, second, microsecond) of a local reading
TimeOfDay(instant, tz) == astimezone(instant, tz) % DayLen

\* date.weekday(): Monday is 0
weekday(date) == date % 7

\* _localize(datetime.combine(date, tod), tzinfo): wall clock to instant
localize(date, tod, tz) == date * DayLen + tod - tz

----------------------------------------------------------------------------
(* helpers.py: occurrence scheduler *)

InSeq(x, s) == \E i \in 1..Len(s) : s[i] = x

\* variant: the scan gives up at the first repeat day whose instant has passed
RECURSIVE ScanCandidates_first_day_only(_, _, _, _, _, _)
ScanCandidates_first_day_only(offset, local_today, tod, days, now, tz) ==
    IF offset >= LookaheadDays THEN None
    ELSE LET candidate_date == local_today + offset
             candidate == localize(candidate_date, tod, tz)
         IN  IF ~InSeq(weekday(candidate_date), days)
             THEN ScanCandidates_first_day_only(offset + 1, local_today, tod, days,
                                                now, tz)
             ELSE IF candidate > now THEN Some(candidate)
             ELSE None

RECURSIVE ScanCandidates(_, _, _, _, _, _)
ScanCandidates(offset, local_today, tod, days, now, tz) ==
    IF offset >= LookaheadDays THEN None
    ELSE LET candidate_date == local_today + offset
             candidate == localize(candidate_date, tod, tz)
         IN  IF ~InSeq(weekday(candidate_date), days)
             THEN ScanCandidates(offset + 1, local_today, tod, days, now, tz)
             ELSE IF candidate > now THEN Some(candidate)
             ELSE ScanCandidates(offset + 1, local_today, tod, days, now, tz)

\* variant: a one-shot alarm due exactly at `now` is still offered
compute_single_alarm_next_due_now(alarm, now, tz) ==
    IF ~alarm.enabled THEN None
    ELSE IF ~alarm.repeat
    THEN (IF alarm.base_time >= now THEN Some(alarm.base_time) ELSE None)
    ELSE IF alarm.repeat_days_normalized = <<>> THEN None
    ELSE ScanCandidates(0, LocalDate(now, tz), TimeOfDay(alarm.base_time, tz),
                        alarm.repeat_days_normalized, now, tz)

compute_single_alarm_next(alarm, now, tz) ==
    IF ~alarm.enabled THEN None
    ELSE IF ~alarm.repeat
    THEN (IF alarm.base_time > now THEN Some(alarm.base_time) ELSE None)
    ELSE IF alarm.repeat_days_normalized = <<>> THEN None
    ELSE ScanCandidates(0, LocalDate(now, tz), TimeOfDay(alarm.base_time, tz),
                        alarm.repeat_days_normalized, now, tz)

\* An alarm mapping is a dict: a sequence of alarms with distinct keys, in
\* insertion order.
KeysOf(alarms) == {alarms[i].key : i \in 1..Len(alarms)}
AlarmAt(alarms, key) == alarms[CHOOSE i \in 1..Len(alarms) : alarms[i].key = key]

compute_alarm_schedule(alarms, now, tz) ==
    [key \in KeysOf(alarms) |->
        compute_single_alarm_next(AlarmAt(alarms, key), now, tz)]

\* str.__lt__: lexical comparison of two digit strings
RECURSIVE StrLess(_, _)
StrLess(a, b) ==
    IF b = <<>> THEN FALSE
    ELSE IF a = <<>> THEN TRUE
    ELSE IF a[1] # b[1] THEN a[1] < b[1]
    ELSE StrLess(Tail(a), Tail(b))

\* sorted(alarms): the keys in ascending string order
RECURSIVE SortedKeys(_)
SortedKeys(keys) ==
    IF keys = {} THEN <<>>
    ELSE LET least == CHOOSE k \in keys : \A o \in keys \ {k} : StrLess(k, o)
         IN  <<least>> \o SortedKeys(keys \ {least})

\* variant: an equal time replaces the current best
RECURSIVE SelectNext_replace_on_tie(_, _, _)
SelectNext_replace_on_tie(order, schedule, best) ==
    IF order = <<>> THEN best
    ELSE LET key == Head(order)
             candidate_time == schedule[key]
         IN  IF candidate_time = None
             THEN SelectNext_replace_on_tie(Tail(order), schedule, best)
             ELSE IF best.next_time = None \/ candidate_time[1] <= best.next_time[1]
             THEN SelectNext_replace_on_tie(Tail(order), schedule,
                             [next_time |-> candidate_time, key |-> Some(key)])
             ELSE SelectNext_replace_on_tie(Tail(order), schedule, best)

RECURSIVE SelectNext(_, _, _)
SelectNext(order, schedule, best) ==
    IF order = <<>> THEN best
    ELSE LET key == Head(order)
             candidate_time == schedule[key]
         IN  IF candidate_time = None
             THEN SelectNext(Tail(order), schedule, best)
             ELSE IF best.next_time = None \/ candidate_time[1] < best.next_time[1]
             THEN SelectNext(Tail(order), schedule,
                             [next_time |-> candidate_time, key |-> Some(key)])
             ELSE SelectNext(Tail(order), schedule, best)

\* variant: the no-future test is made before the all-disabled test
compute_note_future_first(alarms, next_time) ==
    IF alarms = <<>> THEN Some("no_alarms")
    ELSE IF next_time = None THEN Some("no_future")
    ELSE IF \A i \in 1..Len(alarms) : ~alarms[i].enabled THEN Some("no_enabled")
    ELSE None

compute_note(alarms, next_time) ==
    IF alarms = <<>> THEN Some("no_alarms")
    ELSE IF \A i \in 1..Len(alarms) : ~alarms[i].enabled THEN Some("no_enabled")
    ELSE IF next_time = None THEN Some("no_future")
    ELSE None

\* NextAlarmComputation; `alarm` is held as the selected alarm's key
compute_next_alarm(alarms, now, tz) ==
    LET schedule == compute_alarm_schedule(alarms, now, tz)
        best == SelectNext(SortedKeys(KeysOf(alarms)), schedule,
                           [next_time |-> None, key |-> None])
    IN  [alarm |-> best.key,
         next_time |-> best.next_time,
         schedule |-> schedule,
         note |-> compute_note(alarms, best.next_time)]

\* the result slot before compute_next_alarm has run
NotComputed == [alarm |-> None, next_time |-> None, schedule |-> <<>>,
                note |-> Some("not_computed")]

----------------------------------------------------------------------------
(* const.py and helpers.py: weekday tables and event normalization           *)
(*                                                                          *)
(* A dict is a sequence of <<key, value>> pairs in insertion order.  Day     *)
(* names are strings; a letter with a diacritic is written with the mark     *)
(* after the letter ("S'roda", "Pia,tek") and the Polish l-stroke, which     *)
(* NFKD does not decompose, is written "|".                                  *)

DictHas(dict, k) == \E i \in 1..Len(dict) : dict[i][1] = k
DictGet(dict, k) == dict[CHOOSE i \in 1..Len(dict) : dict[i][1] = k][2]

STR_ONOFF == <<<<"on", TRUE>>, <<"off", FALSE>>>>

WEEKDAY_MAPS ==
    << <<"en", << <<"monday", 0>>, <<"mon", 0>>, <<"tuesday", 1>>, <<"tue", 1>>,
                  <<"wednesday", 2>>, <<"wed", 2>>, <<"thursday", 3>>, <<"thu", 3>>,
                  <<"friday", 4>>, <<"fri", 4>>, <<"saturday", 5>>, <<"sat", 5>>,
                  <<"sunday", 6>>, <<"sun", 6>> >> >>,
       <<"pl", << <<"poniedzialek", 0>>, <<"pon", 0>>, <<"poniedzia|ek", 0>>,
                  <<"wtorek", 1>>, <<"wt", 1>>, <<"sroda", 2>>, <<"s'roda", 2>>,
                  <<"sr", 2>>, <<"czwartek", 3>>, <<"czw", 3>>, <<"piatek", 4>>,
                  <<"pia,tek", 4>>, <<"pt", 4>>, <<"sobota", 5>>, <<"sob", 5>>,
                  <<"niedziela", 6>>, <<"nd", 6>>, <<"nie", 6>> >> >> >>

\* normalize_day_key on the day names the model uses: NFKD, drop combining
\* marks, drop spaces and hyphens, casefold
DayKeyTable ==
    << <<"Monday", "monday">>, <<"Tuesday", "tuesday">>, <<"Sunday", "sunday">>,
       <<"MON", "mon">>, <<"Wtorek", "wtorek">>, <<"S'roda", "sroda">>,
       <<"s'roda", "sroda">>, <<"Pia,tek", "piatek">>, <<"pia,tek", "piatek">>,
       <<"Poniedzia|ek", "poniedzia|ek">>, <<"Sobota", "sobota">>,
       <<"Sat-urday", "saturday">>, <<"sun day", "sunday">>,
       <<"Lundi", "lundi">>, <<"Funday", "funday">> >>
normalize_day_key(value) ==
    IF DictHas(DayKeyTable, value) THEN DictGet(DayKeyTable, value) ELSE value

\* {normalize_day_key(key): value for key, value in mapping.items()}: a key
\* that occurs again keeps its first place and takes the later value
NormalizeKeys(mapping) ==
    LET key(i) == normalize_day_key(mapping[i][1])
        first == SelectSeq([i \in 1..Len(mapping) |-> i],
                           LAMBDA i : \A j \in 1..(i - 1) : key(j) # key(i))
        last(i) == CHOOSE j \in 1..Len(mapping) :
                       /\ key(j) = key(i)
                       /\ \A k \in (j + 1)..Len(mapping) : key(k) # key(i)
    IN  [n \in 1..Len(first) |-> <<key(first[n]), mapping[last(first[n])][2]>>]

\* dict[k] = v: a key already present keeps its place and takes the new value
DictSet(dict, k, v) ==
    IF DictHas(dict, k)
    THEN [i \in 1..Len(dict) |-> IF dict[i][1] = k THEN <<k, v>> ELSE dict[i]]
    ELSE Append(dict, <<k, v>>)

\* A parsed JSON value carries its Python type in t: "dict" with items, "int"
\* with n, "str" with s, "float" with its integral part n, "inf" (a float
\* literal too large for a double, which json.loads reads as infinity), "bool"
\* with b, "list" and "null".
JsonDict(items) == [t |-> "dict", items |-> items]
JsonInt(n) == [t |-> "int", n |-> n]
JsonStr(text) == [t |-> "str", s |-> text]
JsonFloat(n) == [t |-> "float", n |-> n]
JsonBool(b) == [t |-> "bool", b |-> b]
JsonInf == [t |-> "inf"]
JsonList == [t |-> "list"]
JsonNull == [t |-> "null"]

\* json.loads on the documents the model uses, written with ' for the double
\* quote; a text that is not in the table is not JSON (JSONDecodeError)
JSON_DOCUMENTS ==
    << <<"{}", JsonDict(<<>>)>>,
       <<"[0, 1]", JsonList>>,
       <<"7", JsonInt(7)>>,
       <<"null", JsonNull>>,
       <<"{'en': {'Lundi': 0}}", JsonDict(<< <<"en", JsonDict(<< <<"Lundi", JsonInt(0)>> >>)>> >>)>>,
       <<"{'en': {'MON': 6}}", JsonDict(<< <<"en", JsonDict(<< <<"MON", JsonInt(6)>> >>)>> >>)>>,
       <<"{'fr': {'Lundi': '0', 'mardi': 1.5}}",
         JsonDict(<< <<"fr", JsonDict(<< <<"Lundi", JsonStr("0")>>,
                                         <<"mardi", JsonFloat(1)>> >>)>> >>)>>,
       <<"{'fr': {'Lundi': 0, 'monday': 3}, 'en': {'Lundi': 1}}",
         JsonDict(<< <<"fr", JsonDict(<< <<"Lundi", JsonInt(0)>>,
                                         <<"monday", JsonInt(3)>> >>)>>,
                     <<"en", JsonDict(<< <<"Lundi", JsonInt(1)>> >>)>> >>)>>,
       <<"{'fr': {'Lundi': 7, 'mardi': -1, 'jeudi': 'x', 'samedi': null}}",
         JsonDict(<< <<"fr", JsonDict(<< <<"Lundi", JsonInt(7)>>,
                                         <<"mardi", JsonInt(0 - 1)>>,
                                         <<"jeudi", JsonStr("x")>>,
                                         <<"samedi", JsonNull>> >>)>> >>)>>,
       <<"{'fr': 3, 'pl': {'Lundi': true}}",
         JsonDict(<< <<"fr", JsonInt(3)>>,
                     <<"pl", JsonDict(<< <<"Lundi", JsonBool(TRUE)>> >>)>> >>)>>,
       <<"{'fr': {'Lundi': 1e999}}",
         JsonDict(<< <<"fr", JsonDict(<< <<"Lundi", JsonInf>> >>)>> >>)>>,
       <<"{'auto': {'Lundi': 3, 'Monday': 5, 'MON': 5}}",
         JsonDict(<< <<"auto", JsonDict(<< <<"Lundi", JsonInt(3)>>,
                                           <<"Monday", JsonInt(5)>>,
                                           <<"MON", JsonInt(5)>> >>)>> >>)>> >>
BLANK_TEXTS == {"", "  "}
JSONDecodeError == [t |-> "JSONDecodeError"]
json_loads(text) ==
    IF DictHas(JSON_DOCUMENTS, text) THEN DictGet(JSON_DOCUMENTS, text)
    ELSE JSONDecodeError

\* int(value): the integer, or the exception it raises
INT_TEXTS == << <<"0", 0>>, <<"3", 3>>, <<" 5 ", 5>>, <<"-2", 0 - 2>> >>
python_int(value) ==
    CASE value.t = "int" -> [n |-> value.n, raises |-> "none"]
      [] value.t = "bool" -> [n |-> IF value.b THEN 1 ELSE 0, raises |-> "none"]
      [] value.t = "float" -> [n |-> value.n, raises |-> "none"]
      [] value.t = "str" ->
             IF DictHas(INT_TEXTS, value.s)
             THEN [n |-> DictGet(INT_TEXTS, value.s), raises |-> "none"]
             ELSE [n |-> 0, raises |-> "ValueError"]
      [] value.t = "inf" -> [n |-> 0, raises |-> "OverflowError"]
      [] OTHER -> [n |-> 0, raises |-> "TypeError"]

\* the base tables with normalized keys
BaseMaps ==
    [i \in 1..Len(WEEKDAY_MAPS) |->
        <<WEEKDAY_MAPS[i][1], NormalizeKeys(WEEKDAY_MAPS[i][2])>>]

\* the loop over one locale's mapping (helpers.py 169-187): acc holds the
\* mapping built so far, the errors and whether int() raised past the except
RECURSIVE MergeDays(_, _)
MergeDays(items, acc) ==
    IF items = <<>> \/ acc.raised THEN acc
    ELSE LET day_name == Head(items)[1]
             weekday_index == python_int(Head(items)[2])
         IN  IF weekday_index.raises \in {"TypeError", "ValueError"}
             THEN MergeDays(Tail(items),
                            [acc EXCEPT !.errors = Append(@, "not_an_integer")])
             ELSE IF weekday_index.raises # "none"
             THEN [acc EXCEPT !.raised = TRUE]
             ELSE IF weekday_index.n < 0 \/ weekday_index.n > 6
             THEN MergeDays(Tail(items),
                            [acc EXCEPT !.errors = Append(@, "out_of_range")])
             ELSE MergeDays(Tail(items),
                            [acc EXCEPT !.mapping = DictSet(@, normalize_day_key(day_name),
                                                           weekday_index.n)])

\* the loop over the locales of the parsed object (helpers.py 161-188); the
\* keys of a JSON object are strings
RECURSIVE MergeLocales(_, _)
MergeLocales(items, acc) ==
    IF items = <<>> \/ acc.raised THEN acc
    ELSE LET locale == Head(items)[1]
             mapping == Head(items)[2]
             merged == MergeDays(mapping.items,
                           [mapping |-> IF DictHas(acc.maps, locale)
                                        THEN DictGet(acc.maps, locale) ELSE <<>>,
                            errors |-> acc.errors, raised |-> FALSE])
         IN  IF mapping.t # "dict"
             THEN MergeLocales(Tail(items),
                      [acc EXCEPT !.errors = Append(@, "locale_not_an_object")])
             ELSE MergeLocales(Tail(items),
                      [maps |-> IF merged.raised THEN acc.maps
                                ELSE DictSet(acc.maps, locale, merged.mapping),
                       errors |-> merged.errors,
                       raised |-> merged.raised])

\* build_weekday_maps: the maps, the errors, and whether the call raised
build_weekday_maps(custom_map_json) ==
    LET parsed == json_loads(custom_map_json)
        base(errors) == [maps |-> BaseMaps, errors |-> errors, raised |-> FALSE]
    IN  IF custom_map_json \in BLANK_TEXTS THEN base(<<>>)
        ELSE IF parsed.t = "JSONDecodeError" THEN base(<<"invalid_json">>)
        ELSE IF parsed.t # "dict" THEN base(<<"not_an_object">>)
        ELSE MergeLocales(parsed.items, base(<<>>))

Score(lines, mapping) ==
    Cardinality({i \in 1..Len(lines) : DictHas(mapping, normalize_day_key(lines[i]))})

\* variant: a later locale with the same score replaces the earlier one
RECURSIVE BestLocale_last_wins(_, _, _, _)
BestLocale_last_wins(maps, lines, best_locale, best_score) ==
    IF maps = <<>> THEN best_locale
    ELSE LET score == Score(lines, Head(maps)[2])
         IN  IF score >= best_score
             THEN BestLocale_last_wins(Tail(maps), lines, Head(maps)[1], score)
             ELSE BestLocale_last_wins(Tail(maps), lines, best_locale, best_score)

RECURSIVE BestLocale(_, _, _, _)
BestLocale(maps, lines, best_locale, best_score) ==
    IF maps = <<>> THEN best_locale
    ELSE LET score == Score(lines, Head(maps)[2])
         IN  IF score > best_score
             THEN BestLocale(Tail(maps), lines, Head(maps)[1], score)
             ELSE BestLocale(Tail(maps), lines, best_locale, best_score)

detect_weekday_locale(weekday_lines, locale_option, maps) ==
    LET default_locale == maps[1][1]
    IN  IF locale_option # "auto"
        THEN (IF DictHas(maps, locale_option) THEN locale_option ELSE default_locale)
        ELSE IF weekday_lines = <<>> THEN default_locale
        ELSE BestLocale(maps, weekday_lines, default_locale, -1)

\* [mapping] + [maps[name] for name in maps if name != locale]
FallbackMaps(maps, locale) ==
    (IF DictHas(maps, locale) THEN <<DictGet(maps, locale)>> ELSE << <<>> >>)
    \o [i \in 1..Len(SelectSeq(maps, LAMBDA m : m[1] # locale)) |->
           SelectSeq(maps, LAMBDA m : m[1] # locale)[i][2]]

RECURSIVE FirstMatch(_, _)
FirstMatch(fallback_maps, normalized_line) ==
    IF fallback_maps = <<>> THEN None
    ELSE IF DictHas(Head(fallback_maps), normalized_line)
    THEN Some(DictGet(Head(fallback_maps), normalized_line))
    ELSE FirstMatch(Tail(fallback_maps), normalized_line)

\* variant: a weekday already seen is recorded again
RECURSIVE MapLines_without_seen(_, _, _)
MapLines_without_seen(lines, fallback_maps, acc) ==
    IF lines = <<>> THEN acc
    ELSE LET line == Head(lines)
             found == FirstMatch(fallback_maps, normalize_day_key(line))
         IN  IF found = None
             THEN MapLines_without_seen(Tail(lines), fallback_maps,
                           [acc EXCEPT !.errors = Append(@, "unmapped_day")])
             ELSE MapLines_without_seen(Tail(lines), fallback_maps,
                           [acc EXCEPT !.normalized = Append(@, found[1]),
                                       !.localized = Append(@, line)])

RECURSIVE MapLines(_, _, _)
MapLines(lines, fallback_maps, acc) ==
    IF lines = <<>> THEN acc
    ELSE LET line == Head(lines)
             found == FirstMatch(fallback_maps, normalize_day_key(line))
         IN  IF found = None
             THEN MapLines(Tail(lines), fallback_maps,
                           [acc EXCEPT !.errors = Append(@, "unmapped_day")])
             ELSE IF InSeq(found[1], acc.normalized)
             THEN MapLines(Tail(lines), fallback_maps, acc)
             ELSE MapLines(Tail(lines), fallback_maps,
                           [acc EXCEPT !.normalized = Append(@, found[1]),
                                       !.localized = Append(@, line)])

\* `raw` is the Repeat Days text, given as its stripped non-empty lines
normalize_repeat_days(raw, locale_option, maps) ==
    LET lines == raw
        locale == detect_weekday_locale(lines, locale_option, maps)
    IN  MapLines(lines, FallbackMaps(maps, locale),
                 [localized |-> <<>>, normalized |-> <<>>, errors |-> <<>>])

\* A raw on/off field is a string; "True" and "False" stand for the native
\* booleans and "missing" for an absent field.  casefold and strip are given
\* for the spellings the model uses.
parse_on_off(value) ==
    CASE value \in {"on", "ON", " on "} -> Some(TRUE)
      [] value \in {"off", "Off"} -> Some(FALSE)
      [] value = "True" -> Some(TRUE)
      [] value = "False" -> Some(FALSE)
      [] OTHER -> None

\* A Date text is [fmt, date, tod, offset]: fmt is the notation, date and tod
\* the wall-clock reading it spells and offset the UTC offset it carries, if
\* any.  fmt "iso" parses with dt_util.parse_datetime, "dmy" with
\* %d.%m.%Y %H:%M, "mdy" with %m/%d/%Y %I:%M %p; "junk" and "empty" fail.
parse_alarm_datetime(value, tz) ==
    IF value.fmt \in {"iso", "dmy", "mdy"}
    THEN IF value.offset = None
         THEN Some(localize(value.date, value.tod, tz))
         ELSE Some(localize(value.date, value.tod, value.offset[1]))
    ELSE None

\* datetime.min, as a wall-clock reading: the first tick of the day before
\* the epoch
datetime_min == 0 - DayLen

\* line 125: parsed.astimezone(tzinfo) raises OverflowError, which is no
\* ValueError, when the reading in tzinfo falls before datetime.min.  Only a
\* text that carries its own offset can do so.
parse_alarm_datetime_overflows(value, tz) ==
    /\ value.fmt \in {"iso", "dmy", "mdy"}
    /\ value.offset # None
    /\ astimezone(localize(value.date, value.tod, value.offset[1]), tz) < datetime_min

\* compute_single_alarm_next, helpers.py 385: alarm.base_time.astimezone(tzinfo)
\* of an enabled repeating alarm with days raises the same OverflowError
compute_single_alarm_next_raises(alarm, tz) ==
    /\ alarm.enabled
    /\ alarm.repeat
    /\ alarm.repeat_days_normalized # <<>>
    /\ astimezone(alarm.base_time, tz) < datetime_min

\* compute_next_alarm computes the schedule of every alarm and catches nothing
compute_next_alarm_raises(alarms, tz) ==
    \E i \in 1..Len(alarms) : compute_single_alarm_next_raises(alarms[i], tz)

\* A raw alarm is [key, mapping, Date, State, Repeat, Snooze, RepeatDays]:
\* mapping tells whether the entry is an object; Date is None when absent.
RECURSIVE CollectRepeatLines(_)
CollectRepeatLines(alarms) ==
    IF alarms = <<>> THEN <<>>
    ELSE (IF Head(alarms).mapping THEN Head(alarms).RepeatDays ELSE <<>>)
         \o CollectRepeatLines(Tail(alarms))

ShapeErrors(alarms) ==
    [i \in 1..Len(SelectSeq(alarms, LAMBDA a : ~a.mapping)) |-> "not_an_object"]

\* the per-alarm pass: an alarm record, or the errors that drop the alarm
normalize_alarm(raw_alarm, tz, map_locale, maps) ==
    LET base_time == IF raw_alarm.Date = None THEN None
                     ELSE parse_alarm_datetime(raw_alarm.Date[1], tz)
        state == parse_on_off(raw_alarm.State)
        repeat == parse_on_off(raw_alarm.Repeat)
        snooze == parse_on_off(raw_alarm.Snooze)
        days == normalize_repeat_days(raw_alarm.RepeatDays, map_locale, maps)
        dropped(errs) == [alarm |-> None, errors |-> errs]
    IN  IF raw_alarm.Date = None THEN dropped(<<"missing_date">>)
        ELSE IF base_time = None THEN dropped(<<"bad_date">>)
        ELSE IF state = None THEN dropped(<<"bad_state">>)
        ELSE IF repeat = None THEN dropped(<<"bad_repeat">>)
        ELSE IF snooze = None THEN dropped(<<"bad_snooze">>)
        ELSE IF repeat[1] /\ days.normalized = <<>>
        THEN dropped(days.errors \o <<"no_valid_days">>)
        ELSE [alarm |-> Some([key |-> raw_alarm.key,
                              enabled |-> state[1],
                              repeat |-> repeat[1],
                              base_time |-> base_time[1],
                              repeat_days_normalized |->
                                  IF repeat[1] THEN days.normalized ELSE <<>>]),
              errors |-> IF repeat[1] THEN days.errors ELSE <<>>]

RECURSIVE NormalizePass(_, _, _, _, _)
NormalizePass(valid_alarms, tz, map_locale, maps, acc) ==
    IF valid_alarms = <<>> THEN acc
    ELSE LET one == normalize_alarm(Head(valid_alarms), tz, map_locale, maps)
         IN  NormalizePass(Tail(valid_alarms), tz, map_locale, maps,
                 [alarms |-> IF one.alarm = None THEN acc.alarms
                             ELSE Append(acc.alarms, one.alarm[1]),
                  parse_errors |-> acc.parse_errors \o one.errors])

\* normalize_event raises: line 298 is reached for every entry that is an
\* object and has a Date, and only ValueError is caught there
normalize_event_raises(alarms, tz) ==
    \E i \in 1..Len(alarms) :
        /\ alarms[i].mapping
        /\ alarms[i].Date # None
        /\ parse_alarm_datetime_overflows(alarms[i].Date[1], tz)

\* NormalizedEvent
normalize_event(alarms, tz, locale_option, maps, map_errors) ==
    LET valid_alarms == SelectSeq(alarms, LAMBDA a : a.mapping)
        map_locale == detect_weekday_locale(CollectRepeatLines(alarms),
                                            locale_option, maps)
        pass == NormalizePass(valid_alarms, tz, map_locale, maps,
                              [alarms |-> <<>>, parse_errors |-> ShapeErrors(alarms)])
    IN  [alarms |-> pass.alarms,
         map_locale |-> map_locale,
         parse_errors |-> pass.parse_errors,
         map_errors |-> map_errors]

----------------------------------------------------------------------------
(* coordinator.py: PersonState and the timer plumbing *)

EmptySchedule == [key \in {} |-> None]

\* PersonState(slug=slug, person=person): the dataclass defaults.  slug is the
\* key of the state in person_states, map_version is always MAP_VERSION and
\* raw_event mirrors the event; the three are not held.
PersonState(person) ==
    [person |-> person,
     normalized_alarms |-> <<>>,
     parse_errors |-> <<>>,
     map_errors |-> <<>>,
     map_locale |-> None,
     last_event_time |-> None,
     next_alarm_key |-> None,
     next_alarm_time |-> None,
     previous_alarm_key |-> None,
     previous_alarm_time |-> None,
     note |-> None,
     schedule |-> EmptySchedule,
     timer_cancel |-> None,
     last_refresh_start |-> None,
     last_refresh_end |-> None,
     refresh_problem |-> FALSE,
     refresh_timer_cancel |-> None,
     refresh_timeout_token |-> None]

\* variant: the text carries the wall-clock reading without its UTC offset
isoformat_without_offset(instant, offset) ==
    [fmt |-> "iso", date |-> LocalDate(instant, offset),
     tod |-> TimeOfDay(instant, offset), offset |-> None]

\* datetime.isoformat(): the wall-clock reading with its UTC offset
isoformat(instant, offset) ==
    [fmt |-> "iso", date |-> LocalDate(instant, offset),
     tod |-> TimeOfDay(instant, offset), offset |-> Some(offset)]
IsoOrNone(value, offset) ==
    IF value = None THEN None ELSE Some(isoformat(value[1], offset))

\* NormalizedAlarm.to_dict
to_dict(alarm) ==
    [key |-> alarm.key, enabled |-> alarm.enabled, repeat |-> alarm.repeat,
     base_time |-> isoformat(alarm.base_time, Timezone),
     repeat_days_normalized |-> Some(alarm.repeat_days_normalized)]

\* PersonState.as_dict: the timer handles, the token and refresh_problem are
\* not stored.  Event and trigger times are UTC, alarm times are local.
as_dict(state) ==
    [person |-> state.person,
     normalized_alarms |->
         [i \in 1..Len(state.normalized_alarms) |-> to_dict(state.normalized_alarms[i])],
     parse_errors |-> state.parse_errors,
     map_errors |-> state.map_errors,
     map_locale |-> state.map_locale,
     last_event_time |-> IsoOrNone(state.last_event_time, 0),
     next_alarm_key |-> state.next_alarm_key,
     next_alarm_time |-> IsoOrNone(state.next_alarm_time, Timezone),
     previous_alarm_key |-> state.previous_alarm_key,
     previous_alarm_time |-> IsoOrNone(state.previous_alarm_time, 0),
     note |-> state.note,
     schedule |-> [key \in DOMAIN state.schedule |->
                      IsoOrNone(state.schedule[key], Timezone)],
     last_refresh_start |-> IsoOrNone(state.last_refresh_start, 0),
     last_refresh_end |-> IsoOrNone(state.last_refresh_end, 0)]

_storage_payload(states) == [slug \in DOMAIN states |-> as_dict(states[slug])]

\* slugify(person) or person.casefold(), on the names the model uses
SlugTable == << <<"Ann", "ann">>, <<"Bob", "bob">> >>
_person_slug(person_raw) == DictGet(SlugTable, person_raw)

\* variant: a state is looked up by slug only, never by display name
ResolveSlug_by_slug_only(states, person) == _person_slug(person)

\* the slug an event's person resolves to: its own slug, else the slug of an
\* existing state with the same display name, else its own (new) slug
ResolveSlug(states, person) ==
    LET slug == _person_slug(person)
        same_name == {s \in DOMAIN states : states[s].person = person}
    IN  IF slug \in DOMAIN states THEN slug
        ELSE IF same_name # {} THEN CHOOSE s \in same_name : TRUE
        ELSE slug

\* self._person_states[slug] = state
PutState(states, slug, state) ==
    [s \in DOMAIN states \cup {slug} |-> IF s = slug THEN state ELSE states[s]]

\* A listener is [id, slug, point_in_time]; a handle is the id of the listener
\* it removes.  A new listener gets the least id that no live listener and no
\* held handle uses.
UsedIds(states, listeners) ==
    {l.id : l \in listeners}
    \cup {states[s].timer_cancel[1] :
             s \in {r \in DOMAIN states : states[r].timer_cancel # None}}
FreshId(used) == CHOOSE i \in 0..Cardinality(used) :
                     i \notin used /\ \A j \in 0..(i - 1) : j \in used

\* async_track_point_in_time: register a listener and return its remover
async_track_point_in_time(listeners, id, slug, point_in_time) ==
    listeners \cup {[id |-> id, slug |-> slug, point_in_time |-> point_in_time]}

\* remove(): a no-op when the listener has fired or was removed already
RemoveListener(listeners, id) == {l \in listeners : l.id # id}

\* async_call_later(hass, timeout, _fire): a timer is [token, slug, due]; the
\* token its _fire closure carries is unique, and serves as its handle
async_call_later(timers, token, slug, due) ==
    timers \cup {[token |-> token, slug |-> slug, due |-> due]}

CancelCallLater(timers, token) == {t \in timers : t.token # token}

CONF_WEEKDAY_LOCALE == "weekday_locale"
CONF_WEEKDAY_CUSTOM_MAP == "weekday_custom_map"
CONF_REFRESH_TIMEOUT == "refresh_timeout"

\* DEFAULT_OPTIONS: an options dict holds its values with their Python type
DEFAULT_OPTIONS ==
    << <<CONF_WEEKDAY_LOCALE, JsonStr("auto")>>,
       <<CONF_WEEKDAY_CUSTOM_MAP, JsonStr("{}")>>,
       <<CONF_REFRESH_TIMEOUT, JsonInt(RefreshTimeout)>> >>

RECURSIVE DictUpdate(_, _)
DictUpdate(dict, other) ==
    IF other = <<>> THEN dict
    ELSE DictUpdate(DictSet(dict, Head(other)[1], Head(other)[2]), Tail(other))

\* entry.options is a Python value, a dict unless something else was stored
_current_options(options) ==
    IF options.t = "dict" THEN DictUpdate(DEFAULT_OPTIONS, options.items)
    ELSE DEFAULT_OPTIONS

\* the effective timeout, or the exception int() raises past the except clause
_refresh_timeout_seconds(options) ==
    LET raw_timeout == DictGet(_current_options(options), CONF_REFRESH_TIMEOUT)
        timeout == python_int(raw_timeout)
        default == DictGet(DEFAULT_OPTIONS, CONF_REFRESH_TIMEOUT).n
    IN  IF timeout.raises \in {"TypeError", "ValueError"}
        THEN [timeout |-> default, raises |-> "none"]
        ELSE IF timeout.raises # "none"
        THEN [timeout |-> 0, raises |-> timeout.raises]
        ELSE [timeout |-> IF timeout.n >= 1 THEN timeout.n ELSE default,
              raises |-> "none"]

\* the options of the coordinator's config entry are the defaults
EntryOptions == JsonDict(DEFAULT_OPTIONS)

_schedule_rollover(state, slug, listeners, used) ==
    LET cancelled == IF state.timer_cancel # None
                     THEN RemoveListener(listeners, state.timer_cancel[1])
                     ELSE listeners
        id == FreshId(used)
    IN  IF state.next_alarm_time = None
        THEN [state |-> [state EXCEPT !.timer_cancel = None],
              listeners |-> cancelled]
        ELSE [state |-> [state EXCEPT !.timer_cancel = Some(id)],
              listeners |-> async_track_point_in_time(cancelled, id, slug,
                                                      state.next_alarm_time[1])]

\* variant: the recomputation leaves next_alarm_key as it was
_refresh_schedule_keeps_key(state, reference_time) ==
    IF state.normalized_alarms = <<>>
    THEN [state EXCEPT !.next_alarm_time = None,
                       !.note = Some("no_alarms"),
                       !.schedule = EmptySchedule]
    ELSE LET computation == compute_next_alarm(state.normalized_alarms,
                                               reference_time, Timezone)
         IN  [state EXCEPT !.next_alarm_time = computation.next_time,
                           !.note = computation.note,
                           !.schedule = computation.schedule]

_refresh_schedule(state, reference_time) ==
    IF state.normalized_alarms = <<>>
    THEN [state EXCEPT !.next_alarm_key = None,
                       !.next_alarm_time = None,
                       !.note = Some("no_alarms"),
                       !.schedule = EmptySchedule]
    ELSE LET computation == compute_next_alarm(state.normalized_alarms,
                                               reference_time, Timezone)
         IN  [state EXCEPT !.next_alarm_key = computation.alarm,
                           !.next_alarm_time = computation.next_time,
                           !.note = computation.note,
                           !.schedule = computation.schedule]

_cancel_refresh_timer_forgets_timer(state, timers) ==
    IF state.refresh_timer_cancel # None
    THEN [state |-> [state EXCEPT !.refresh_timer_cancel = None],
          timers |-> timers]
    ELSE [state |-> state, timers |-> timers]

_cancel_refresh_timer(state, timers) ==
    IF state.refresh_timer_cancel # None
    THEN [state |-> [state EXCEPT !.refresh_timer_cancel = None],
          timers |-> CancelCallLater(timers, state.refresh_timer_cancel[1])]
    ELSE [state |-> state, timers |-> timers]

_schedule_refresh_timeout_never_due(state, slug, token, timers, loop_time) ==
    [state |-> [state EXCEPT !.refresh_timer_cancel = Some(token)],
     timers |-> async_call_later(timers, token, slug, MaxTime + 2)]

_schedule_refresh_timeout(state, slug, token, timers, loop_time) ==
    [state |-> [state EXCEPT !.refresh_timer_cancel = Some(token)],
     timers |-> async_call_later(timers, token, slug,
                                 loop_time + _refresh_timeout_seconds(EntryOptions).timeout)]

----------------------------------------------------------------------------
(* The events the bus delivers *)

PersonNames == {"Ann"}

DateText(date, tod) == [fmt |-> "dmy", date |-> date, tod |-> tod, offset |-> None]
RawAlarm(key, date, state, repeat, days) ==
    [key |-> key, mapping |-> TRUE, Date |-> date, State |-> state,
     Repeat |-> repeat, Snooze |-> "off", RepeatDays |-> days]
NotAnObject(key) ==
    [key |-> key, mapping |-> FALSE, Date |-> None, State |-> "missing",
     Repeat |-> "missing", Snooze |-> "missing", RepeatDays |-> <<>>]

\* one enabled one-shot alarm
PayloadOneShot ==
    << RawAlarm(<<1>>, Some(DateText(1, 0)), "on", "off", <<>>) >>
\* an enabled alarm repeating on Monday, Tuesday and Wednesday, with one day
\* name no table knows, and a disabled one-shot alarm
PayloadWeekdays ==
    << RawAlarm(<<2>>, Some(DateText(0, 1)), "ON", "on",
                <<"Monday", "Wtorek", "S'roda", "Funday", "Tuesday">>),
       RawAlarm(<<1>>, Some(DateText(1, 0)), "off", "off", <<>>) >>
\* a malformed entry, an alarm without a date and a repeating alarm without
\* days: nothing survives
PayloadBroken ==
    << NotAnObject(<<1>>),
       RawAlarm(<<2>>, None, "on", "off", <<>>),
       RawAlarm(<<1, 0>>, Some(DateText(1, 1)), "on", "on", <<"Funday">>) >>
\* an alarm dated on the first day a datetime can hold, with a UTC offset east
\* of the configured zone ("0001-01-01T00:00:00+14:00")
PayloadOverflow ==
    << RawAlarm(<<1>>, Some([fmt |-> "iso", date |-> datetime_min \div DayLen,
                             tod |-> 0, offset |-> Some(Timezone + 1)]),
                "on", "off", <<>>) >>
Payloads == {PayloadOneShot, PayloadWeekdays, PayloadBroken, PayloadOverflow}

----------------------------------------------------------------------------
(* coordinator.py: the operations *)

EVENT_NEXT_ALARM == "ha_ios_nextalarm"
EVENT_REFRESH_START == "ha_ios_nextalarm_refresh_start"

\* DEFAULT_OPTIONS, the options of the config entry
DEFAULT_WEEKDAY_LOCALE == "auto"
DEFAULT_CUSTOM_MAP == "{}"

\* lines 666-679: build_weekday_maps and normalize_event under the options and
\* the time zone of the model.  Both are pure, so the result depends on the
\* payload alone and is computed once per payload that normalizes.
NormalizedEvents ==
    [alarms \in {payload \in Payloads : ~normalize_event_raises(payload, Timezone)} |->
        LET built == build_weekday_maps(DEFAULT_CUSTOM_MAP)
        IN  normalize_event(alarms, Timezone, DEFAULT_WEEKDAY_LOCALE,
                            built.maps, built.errors)]

\* variant: the early return also forgets the pending refresh timers
Untouched_forgets_timers(states, timers, listeners) ==
    [dropped |-> TRUE, raised |-> FALSE, slug |-> "", states |-> states,
     timers |-> {}, listeners |-> listeners]

Untouched(states, timers, listeners) ==
    [dropped |-> TRUE, raised |-> FALSE, slug |-> "", states |-> states,
     timers |-> timers, listeners |-> listeners]

\* lines 687-696 and 698-701: the assignments of one alarm-data event
ApplyNormalized_keeps_token(state, normalized, reference_now) ==
    [state EXCEPT !.normalized_alarms = normalized.alarms,
                  !.parse_errors = normalized.parse_errors,
                  !.map_errors = normalized.map_errors,
                  !.map_locale = Some(normalized.map_locale),
                  !.last_event_time = Some(reference_now),
                  !.last_refresh_end = Some(reference_now),
                  !.refresh_problem = FALSE]

\* lines 687-696: the fields an alarm-data event assigns from the normalized
\* payload, ending the refresh cycle
ApplyNormalized(state, normalized, reference_now) ==
    [state EXCEPT !.normalized_alarms = normalized.alarms,
                  !.parse_errors = normalized.parse_errors,
                  !.map_errors = normalized.map_errors,
                  !.map_locale = Some(normalized.map_locale),
                  !.last_event_time = Some(reference_now),
                  !.last_refresh_end = Some(reference_now),
                  !.refresh_problem = FALSE,
                  !.refresh_timeout_token = None]

ApplyComputation(state, computation) ==
    [state EXCEPT !.next_alarm_key = computation.alarm,
                  !.next_alarm_time = computation.next_time,
                  !.note = computation.note,
                  !.schedule = computation.schedule]

\* variant: the reference instant of an event is the wall clock
event_reference_now_wall_clock(event) == utcnow

\* line 681, event.time_fired or dt_util.utcnow(): an Event always carries
\* the instant at which it was fired (core.py 55)
event_reference_now(event) == event.time_fired

\* the part of _async_process_event that runs before the awaited save, or up
\* to the exception that normalize_event raises at line 673: by then lines
\* 659-664 have created the PersonState and assigned its person
_async_process_event(states, event, timers, listeners) ==
    IF event.person = None \/ event.alarms = None
    THEN Untouched(states, timers, listeners)
    ELSE IF normalize_event_raises(event.alarms[1], Timezone)
    THEN LET person == event.person[1]
             slug == ResolveSlug(states, person)
             found == IF slug \in DOMAIN states THEN states[slug]
                      ELSE PersonState(person)
         IN  [dropped |-> FALSE, raised |-> TRUE, slug |-> slug,
              states |-> PutState(states, slug, [found EXCEPT !.person = person]),
              timers |-> timers,
              listeners |-> listeners]
    ELSE LET person == event.person[1]
             slug == ResolveSlug(states, person)
             found == IF slug \in DOMAIN states THEN states[slug]
                      ELSE PersonState(person)
             normalized == NormalizedEvents[event.alarms[1]]
             reference_now == event_reference_now(event)
             computation == compute_next_alarm(normalized.alarms, reference_now,
                                               Timezone)
             refreshed == _cancel_refresh_timer(
                              ApplyNormalized([found EXCEPT !.person = person],
                                              normalized, reference_now),
                              timers)
             armed == _schedule_rollover(
                          ApplyComputation(refreshed.state, computation),
                          slug, listeners, UsedIds(states, listeners))
         IN  [dropped |-> FALSE, raised |-> FALSE, slug |-> slug,
              states |-> PutState(states, slug, armed.state),
              timers |-> refreshed.timers,
              listeners |-> armed.listeners]

\* the part of _async_process_refresh_start that runs before the awaited save;
\* `token` is the fresh uuid4
_async_process_refresh_start(states, event, timers, listeners, token, loop_time) ==
    IF event.person = None
    THEN Untouched(states, timers, listeners)
    ELSE LET person == event.person[1]
             slug == ResolveSlug(states, person)
             found == IF slug \in DOMAIN states THEN states[slug]
                      ELSE PersonState(person)
             reference_now == event.time_fired
             cancelled == _cancel_refresh_timer(
                              [found EXCEPT !.person = person,
                                            !.last_refresh_start = Some(reference_now)],
                              timers)
             armed == _schedule_refresh_timeout(
                          [cancelled.state EXCEPT !.refresh_problem = FALSE,
                                                  !.refresh_timeout_token = Some(token)],
                          slug, token, cancelled.timers, loop_time)
         IN  [dropped |-> FALSE, raised |-> FALSE, slug |-> slug,
              states |-> PutState(states, slug, armed.state),
              timers |-> armed.timers,
              listeners |-> listeners]

\* variant: the rollover re-arms its timer only after the awaited save
_async_rollover_arms_after_save(states, slug, trigger_time, listeners) ==
    LET state == states[slug]
        fired == [state EXCEPT !.timer_cancel = None,
                               !.previous_alarm_time = Some(trigger_time),
                               !.previous_alarm_key = state.next_alarm_key]
    IN  [states |-> PutState(states, slug, _refresh_schedule(fired, trigger_time)),
         listeners |-> listeners]

\* the part of _async_rollover that runs before the awaited save
\* variant: the rollover also closes the refresh cycle of the person
_async_rollover_closing_refresh(states, slug, trigger_time, listeners) ==
    LET state == states[slug]
        fired == [state EXCEPT !.timer_cancel = None,
                               !.previous_alarm_time = Some(trigger_time),
                               !.previous_alarm_key = state.next_alarm_key,
                               !.refresh_problem = FALSE,
                               !.refresh_timeout_token = None]
        armed == _schedule_rollover(_refresh_schedule(fired, trigger_time), slug,
                                    listeners, UsedIds(states, listeners))
    IN  [states |-> PutState(states, slug, armed.state),
         listeners |-> armed.listeners]

_async_rollover(states, slug, trigger_time, listeners) ==
    LET state == states[slug]
        fired == [state EXCEPT !.timer_cancel = None,
                               !.previous_alarm_time = Some(trigger_time),
                               !.previous_alarm_key = state.next_alarm_key]
        armed == _schedule_rollover(_refresh_schedule(fired, trigger_time), slug,
                                    listeners, UsedIds(states, listeners))
    IN  [states |-> PutState(states, slug, armed.state),
         listeners |-> armed.listeners]

_async_mark_refresh_timeout_stale_drops_handle(states, slug, token) ==
    LET state == states[slug]
    IN  IF state.refresh_timeout_token # Some(token)
        THEN [stale |-> TRUE,
              states |-> PutState(states, slug,
                             [state EXCEPT !.refresh_timer_cancel = None])]
        ELSE [stale |-> FALSE,
              states |-> PutState(states, slug,
                             [state EXCEPT !.refresh_timer_cancel = None,
                                           !.refresh_problem = TRUE,
                                           !.refresh_timeout_token = None])]

\* the part of _async_mark_refresh_timeout that runs before the awaited save
_async_mark_refresh_timeout(states, slug, token) ==
    LET state == states[slug]
    IN  IF state.refresh_timeout_token # Some(token)
        THEN [stale |-> TRUE, states |-> states]
        ELSE [stale |-> FALSE,
              states |-> PutState(states, slug,
                             [state EXCEPT !.refresh_timer_cancel = None,
                                           !.refresh_problem = TRUE,
                                           !.refresh_timeout_token = None])]

----------------------------------------------------------------------------
(* The coordinator as a state machine *)

\* op names the operation a step ran, slug the person it ran for and notified
\* tells whether the step sent the person's update signal
Effect(op, slug, notified) == [op |-> op, slug |-> slug, notified |-> notified]

NoOne == [slug \in {} |-> PersonState("")]

NoCall == [fn |-> "none"]
HelperIdle ==
    /\ helperCall = NoCall
    /\ helperResult = None
FlowIdle ==
    /\ entry_options = JsonDict(DEFAULT_OPTIONS)
CalcIdle ==
    /\ calcAlarms = <<>>
    /\ calcNow = 0
    /\ calcResult = NotComputed
    /\ HelperIdle
    /\ FlowIdle

CoordInit ==
    /\ utcnow = 0
    /\ person_states = NoOne
    /\ time_listeners = {}
    /\ call_later_timers = {}
    /\ lock = FALSE
    /\ listening = TRUE
    /\ tasks = <<>>
    /\ saves = <<>>
    /\ store = None
    /\ token_seq = 0
    /\ alarm_seq = 0
    /\ effect = Effect("init", "", FALSE)

\* the wall clock advances
Tick ==
    /\ utcnow < MaxTime
    /\ utcnow' = utcnow + 1
    /\ effect' = Effect("tick", "", FALSE)
    /\ UNCHANGED <<pureVars, listening, person_states, time_listeners, call_later_timers,
                   lock, tasks, saves, store, token_seq, alarm_seq>>

\* An event is [event_type, person, alarms, time_fired]: hass.bus.async_fire
\* stamps it with the wall clock, and its handler runs when the lock is free.
\* variant: the save does not remember that its operation holds the lock
SaveOp_forgets_lock(op, slug, states, holds_lock) ==
    [op |-> op, slug |-> slug, data |-> _storage_payload(states), lock |-> FALSE]

SaveOp(op, slug, states, holds_lock) ==
    [op |-> op, slug |-> slug, data |-> _storage_payload(states), lock |-> holds_lock]

\* _async_handle_event: take the lock and run up to the awaited save; a
\* dropped event returns at once and releases the lock, and an exception
\* leaves `async with` and releases it as well: nothing in the handler
\* catches it
HandleAlarmEvent(person, alarms) ==
    /\ listening
    /\ ~lock
    /\ alarm_seq < MaxAlarmEvents
    /\ \E done \in {_async_process_event(
                         person_states,
                         [event_type |-> EVENT_NEXT_ALARM, person |-> person,
                          alarms |-> alarms, time_fired |-> utcnow],
                         call_later_timers, time_listeners)} :
           /\ person_states' = done.states
           /\ call_later_timers' = done.timers
           /\ time_listeners' = done.listeners
           /\ lock' = ~(done.dropped \/ done.raised)
           /\ saves' = IF done.dropped \/ done.raised THEN saves
                       ELSE Append(saves, SaveOp("event", done.slug, done.states, TRUE))
           /\ alarm_seq' = IF done.dropped \/ done.raised THEN alarm_seq
                           ELSE alarm_seq + 1
           /\ effect' = Effect(IF done.dropped THEN "event_dropped"
                               ELSE IF done.raised THEN "event_raised" ELSE "event",
                               done.slug, FALSE)
    /\ UNCHANGED <<pureVars, listening, utcnow, tasks, store, token_seq>>

\* variant: the refresh-start handler runs without taking the lock
HandleRefreshStart_without_lock(person) ==
    /\ listening
    /\ token_seq < MaxTokens
    /\ \E done \in {_async_process_refresh_start(
                         person_states,
                         [event_type |-> EVENT_REFRESH_START, person |-> person,
                          alarms |-> None, time_fired |-> utcnow],
                         call_later_timers, time_listeners, token_seq + 1, utcnow)} :
           /\ person_states' = done.states
           /\ call_later_timers' = done.timers
           /\ time_listeners' = done.listeners
           /\ lock' = lock
           /\ saves' = IF done.dropped THEN saves
                       ELSE Append(saves, SaveOp("refresh_start", done.slug,
                                                 done.states, FALSE))
           /\ token_seq' = IF done.dropped THEN token_seq ELSE token_seq + 1
           /\ effect' = Effect(IF done.dropped THEN "refresh_start_dropped"
                               ELSE "refresh_start", done.slug, FALSE)
    /\ UNCHANGED <<pureVars, listening, utcnow, tasks, store, alarm_seq>>

\* _async_handle_refresh_start
HandleRefreshStart(person) ==
    /\ listening
    /\ ~lock
    /\ token_seq < MaxTokens
    /\ \E done \in {_async_process_refresh_start(
                         person_states,
                         [event_type |-> EVENT_REFRESH_START, person |-> person,
                          alarms |-> None, time_fired |-> utcnow],
                         call_later_timers, time_listeners, token_seq + 1, utcnow)} :
           /\ person_states' = done.states
           /\ call_later_timers' = done.timers
           /\ time_listeners' = done.listeners
           /\ lock' = ~done.dropped
           /\ saves' = IF done.dropped THEN saves
                       ELSE Append(saves, SaveOp("refresh_start", done.slug,
                                                 done.states, TRUE))
           /\ token_seq' = IF done.dropped THEN token_seq ELSE token_seq + 1
           /\ effect' = Effect(IF done.dropped THEN "refresh_start_dropped"
                               ELSE "refresh_start", done.slug, FALSE)
    /\ UNCHANGED <<pureVars, listening, utcnow, tasks, store, alarm_seq>>

\* variant: the listener removes itself and the rollover task is never created
RolloverTimerFires_without_task(listener) ==
    /\ listener \in time_listeners
    /\ utcnow >= listener.point_in_time
    /\ time_listeners' = time_listeners \ {listener}
    /\ tasks' = tasks
    /\ effect' = Effect("rollover_timer", listener.slug, FALSE)
    /\ UNCHANGED <<pureVars, listening, utcnow, person_states, call_later_timers, lock,
                   saves, store, token_seq, alarm_seq>>

\* a point-in-time listener sees a time at or after its point: it removes
\* itself and _fire creates the rollover task
RolloverTimerFires(listener) ==
    /\ listener \in time_listeners
    /\ utcnow >= listener.point_in_time
    /\ time_listeners' = time_listeners \ {listener}
    /\ tasks' = Append(tasks, [kind |-> "rollover", slug |-> listener.slug,
                               trigger_time |-> utcnow, token |-> 0])
    /\ effect' = Effect("rollover_timer", listener.slug, FALSE)
    /\ UNCHANGED <<pureVars, listening, utcnow, person_states, call_later_timers, lock,
                   saves, store, token_seq, alarm_seq>>

\* a call_later timer is due: _fire creates the refresh-timeout task
RefreshTimerFires(timer) ==
    /\ timer \in call_later_timers
    /\ utcnow >= timer.due
    /\ call_later_timers' = call_later_timers \ {timer}
    /\ tasks' = Append(tasks, [kind |-> "refresh_timeout", slug |-> timer.slug,
                               trigger_time |-> utcnow, token |-> timer.token])
    /\ effect' = Effect("refresh_timer", timer.slug, FALSE)
    /\ UNCHANGED <<pureVars, listening, utcnow, person_states, time_listeners, lock,
                   saves, store, token_seq, alarm_seq>>

\* the oldest task is a rollover: _async_rollover up to the awaited save
RunRollover ==
    /\ tasks # <<>>
    /\ Head(tasks).kind = "rollover"
    /\ Head(tasks).slug \in DOMAIN person_states
    /\ \E done \in {_async_rollover(person_states, Head(tasks).slug,
                                      Head(tasks).trigger_time, time_listeners)} :
           /\ person_states' = done.states
           /\ time_listeners' = done.listeners
           /\ saves' = Append(saves, SaveOp("rollover", Head(tasks).slug,
                                            done.states, FALSE))
    /\ tasks' = Tail(tasks)
    /\ effect' = Effect("rollover", Head(tasks).slug, FALSE)
    /\ UNCHANGED <<pureVars, listening, utcnow, call_later_timers, lock, store, token_seq, alarm_seq>>

\* the oldest task is a refresh timeout: _async_mark_refresh_timeout up to the
\* awaited save, or all of it when the token is stale
RunRefreshTimeout ==
    /\ tasks # <<>>
    /\ Head(tasks).kind = "refresh_timeout"
    /\ Head(tasks).slug \in DOMAIN person_states
    /\ \E done \in {_async_mark_refresh_timeout(person_states, Head(tasks).slug,
                                                  Head(tasks).token)} :
           /\ person_states' = done.states
           /\ saves' = IF done.stale THEN saves
                       ELSE Append(saves, SaveOp("refresh_timeout", Head(tasks).slug,
                                                 done.states, FALSE))
           /\ effect' = Effect(IF done.stale THEN "refresh_timeout_stale"
                               ELSE "refresh_timeout", Head(tasks).slug, FALSE)
    /\ tasks' = Tail(tasks)
    /\ UNCHANGED <<pureVars, listening, utcnow, time_listeners, call_later_timers, lock,
                   store, token_seq, alarm_seq>>

\* the oldest awaited save completes: the snapshot is written, the operation
\* notifies its person (the teardown notifies no one) and, if it is an event
\* handler, releases the lock
SaveDone ==
    /\ saves # <<>>
    /\ store' = Some(Head(saves).data)
    /\ effect' = Effect("saved", Head(saves).slug, Head(saves).op # "unload")
    /\ lock' = IF Head(saves).lock THEN FALSE ELSE lock
    /\ saves' = Tail(saves)
    /\ UNCHANGED <<pureVars, listening, utcnow, person_states, time_listeners, call_later_timers,
                   tasks, token_seq, alarm_seq>>

EventPersons == {None} \cup {Some(name) : name \in PersonNames}
EventAlarms == {None} \cup {Some(payload) : payload \in Payloads}

Next ==
    \/ Tick
    \/ \E person \in EventPersons, alarms \in EventAlarms :
          HandleAlarmEvent(person, alarms)
    \/ \E person \in EventPersons : HandleRefreshStart(person)
    \/ \E listener \in time_listeners : RolloverTimerFires(listener)
    \/ \E timer \in call_later_timers : RefreshTimerFires(timer)
    \/ RunRollover
    \/ RunRefreshTimeout
    \/ SaveDone

Init == CoordInit /\ CalcIdle

Spec == Init /\ [][Next]_vars

\* the oldest task can run: its person is known, which is all RunRollover and
\* RunRefreshTimeout ask for beyond the kind of the task
TaskReady ==
    /\ tasks # <<>>
    /\ Head(tasks).slug \in DOMAIN person_states
TaskRuns == RunRollover \/ RunRefreshTimeout

\* The event loop completes every awaited save, delivers every due timer and
\* runs every ready task.  The last conjunct is weak fairness of TaskRuns
\* written out with its enabling condition TaskReady.
Fairness ==
    /\ WF_vars(SaveDone)
    /\ WF_vars(\E listener \in time_listeners : RolloverTimerFires(listener))
    /\ WF_vars(\E timer \in call_later_timers : RefreshTimerFires(timer))
    /\ ([]<>(~TaskReady) \/ []<><<TaskRuns>>_vars)

FairSpec == Init /\ [][Next]_vars /\ Fairness

----------------------------------------------------------------------------
(* coordinator.py: restore at startup                                       *)
(*                                                                          *)
(* A stored value that has the wrong type is the record NotAMapping; a      *)
(* stored instant is a text like a Date text, whose fmt is "iso" when       *)
(* dt_util.parse_datetime reads it, "junk" when it is a string that does    *)
(* not parse and "missing" when the field is absent or no string.           *)

NotAMapping == [json |-> "not a mapping"]
IsMapping(value) == "json" \notin DOMAIN value

\* dt_util.parse_datetime: a text without an offset is taken as UTC
parse_datetime(value) ==
    IF value.fmt = "iso"
    THEN Some(localize(value.date, value.tod,
                       IF value.offset = None THEN 0 ELSE value.offset[1]))
    ELSE None

_restore_datetime(raw_value) ==
    IF raw_value = None THEN None ELSE parse_datetime(raw_value[1])

\* a stored list is Some(list); None stands for null, an absent field and a
\* value that is neither list nor tuple
_restore_list(raw_value, default) ==
    IF raw_value = None THEN default ELSE raw_value[1]

\* from_dict, lines 265-350: a record that is no mapping or has no valid
\* base_time is skipped, the others are restored in their order
RECURSIVE RestoreAlarms(_)
RestoreAlarms(raw_alarms) ==
    IF raw_alarms = <<>> THEN <<>>
    ELSE LET alarm_data == Head(raw_alarms)
         IN  IF ~IsMapping(alarm_data) THEN RestoreAlarms(Tail(raw_alarms))
             ELSE IF parse_datetime(alarm_data.base_time) = None
             THEN RestoreAlarms(Tail(raw_alarms))
             ELSE << [key |-> alarm_data.key,
                      enabled |-> alarm_data.enabled,
                      repeat |-> alarm_data.repeat,
                      base_time |-> parse_datetime(alarm_data.base_time)[1],
                      repeat_days_normalized |->
                          _restore_list(alarm_data.repeat_days_normalized, <<>>)] >>
                  \o RestoreAlarms(Tail(raw_alarms))

\* variant: a refresh that the snapshot shows as started and not ended is
\* restored as a refresh problem
from_dict_pending_is_problem(slug, data) ==
    [PersonState(IF data.person = "" THEN slug ELSE data.person) EXCEPT
        !.normalized_alarms = RestoreAlarms(data.normalized_alarms),
        !.parse_errors = data.parse_errors,
        !.map_errors = data.map_errors,
        !.map_locale = data.map_locale,
        !.last_event_time = _restore_datetime(data.last_event_time),
        !.next_alarm_key = data.next_alarm_key,
        !.next_alarm_time = _restore_datetime(data.next_alarm_time),
        !.previous_alarm_key = data.previous_alarm_key,
        !.previous_alarm_time = _restore_datetime(data.previous_alarm_time),
        !.note = data.note,
        !.schedule = [key \in DOMAIN data.schedule |->
                         _restore_datetime(data.schedule[key])],
        !.last_refresh_start = _restore_datetime(data.last_refresh_start),
        !.last_refresh_end = _restore_datetime(data.last_refresh_end),
        !.refresh_problem =
            /\ _restore_datetime(data.last_refresh_start) # None
            /\ \/ _restore_datetime(data.last_refresh_end) = None
               \/ _restore_datetime(data.last_refresh_end)[1]
                     < _restore_datetime(data.last_refresh_start)[1]]

\* PersonState.from_dict: the handles and the token start as none and
\* refresh_problem as false
from_dict(slug, data) ==
    [PersonState(IF data.person = "" THEN slug ELSE data.person) EXCEPT
        !.normalized_alarms = RestoreAlarms(data.normalized_alarms),
        !.parse_errors = data.parse_errors,
        !.map_errors = data.map_errors,
        !.map_locale = data.map_locale,
        !.last_event_time = _restore_datetime(data.last_event_time),
        !.next_alarm_key = data.next_alarm_key,
        !.next_alarm_time = _restore_datetime(data.next_alarm_time),
        !.previous_alarm_key = data.previous_alarm_key,
        !.previous_alarm_time = _restore_datetime(data.previous_alarm_time),
        !.note = data.note,
        !.schedule = [key \in DOMAIN data.schedule |->
                         _restore_datetime(data.schedule[key])],
        !.last_refresh_start = _restore_datetime(data.last_refresh_start),
        !.last_refresh_end = _restore_datetime(data.last_refresh_end)]

\* timedelta(seconds=1) before an instant, where every instant is a whole
\* tick and a tick is no shorter than a second: the tick before is before or
\* at the same instants, and on the same local date, as the second before.
\* Instants less than a second apart are the subject of FineSpec.
timedelta_seconds_1 == 1

\* lines 571-584: recompute the schedule of a restored state and arm its
\* timer; one_second is timedelta(seconds=1) in the ticks of the caller
RestoreSchedule(state, reference_now, one_second) ==
    IF state.next_alarm_time # None /\ reference_now <= state.next_alarm_time[1]
    THEN ApplyComputation(state,
             compute_next_alarm(state.normalized_alarms,
                                state.next_alarm_time[1] - one_second,
                                Timezone))
    ELSE _refresh_schedule(state, reference_now)

\* lines 553-590: the loop over the stored persons.  The restored state is
\* entered (line 571) before its schedule is recomputed, and the recompute
\* is in no try block: when it raises, the loop and the load end there.
RECURSIVE LoadPersons(_, _, _, _, _)
LoadPersons(slugs, persons, reference_now, one_second, acc) ==
    IF slugs = {} THEN acc
    ELSE LET slug == CHOOSE s \in slugs : TRUE
             stored == persons[slug]
             restored == from_dict(slug, stored)
             armed == _schedule_rollover(
                          RestoreSchedule(restored, reference_now, one_second),
                          slug, acc.listeners, UsedIds(acc.states, acc.listeners))
         IN  IF ~IsMapping(stored)
             THEN LoadPersons(slugs \ {slug}, persons, reference_now, one_second, acc)
             ELSE IF compute_next_alarm_raises(restored.normalized_alarms, Timezone)
             THEN [states |-> PutState(acc.states, slug, restored),
                   listeners |-> acc.listeners, raised |-> TRUE]
             ELSE LoadPersons(slugs \ {slug}, persons, reference_now, one_second,
                              [states |-> PutState(acc.states, slug, armed.state),
                               listeners |-> armed.listeners, raised |-> FALSE])

\* _async_load_storage: nothing is restored from an empty store or from one
\* that holds no mapping of persons
_async_load_storage(data, reference_now, one_second) ==
    IF data = None THEN [states |-> NoOne, listeners |-> {}, raised |-> FALSE]
    ELSE IF ~IsMapping(data[1])
    THEN [states |-> NoOne, listeners |-> {}, raised |-> FALSE]
    ELSE LoadPersons(DOMAIN data[1], data[1], reference_now, one_second,
                     [states |-> NoOne, listeners |-> {}, raised |-> FALSE])

\* The snapshots a start can find.  A snapshot written by an earlier run is
\* the as_dict of a person after an alarm-data event; the others carry values
\* of the wrong type or instants that do not parse or are out of range.
StoredAfterEvent(person, payload, time_fired) ==
    as_dict(_async_process_event(
                NoOne,
                [event_type |-> EVENT_NEXT_ALARM, person |-> Some(person),
                 alarms |-> Some(payload), time_fired |-> time_fired],
                {}, {}).states[_person_slug(person)])
\* The two snapshots of an earlier run that the stores below are built from,
\* written out: what as_dict gave after the first event of the person, fired
\* at instant 0, carried PayloadOneShot or PayloadWeekdays.
StoredText(date, tod, offset) ==
    [fmt |-> "iso", date |-> date, tod |-> tod, offset |-> Some(offset)]
StoredOneShot(person) ==
    [person |-> person,
     normalized_alarms |->
         << [key |-> <<1>>, enabled |-> TRUE, repeat |-> FALSE,
             base_time |-> StoredText(1, 0, Timezone),
             repeat_days_normalized |-> Some(<<>>)] >>,
     parse_errors |-> <<>>, map_errors |-> <<>>, map_locale |-> Some("en"),
     last_event_time |-> Some(StoredText(0, 0, 0)),
     next_alarm_key |-> Some(<<1>>),
     next_alarm_time |-> Some(StoredText(1, 0, Timezone)),
     previous_alarm_key |-> None, previous_alarm_time |-> None, note |-> None,
     schedule |-> [key \in {<<1>>} |-> Some(StoredText(1, 0, Timezone))],
     last_refresh_start |-> None,
     last_refresh_end |-> Some(StoredText(0, 0, 0))]
StoredWeekdays(person) ==
    [person |-> person,
     normalized_alarms |->
         << [key |-> <<2>>, enabled |-> TRUE, repeat |-> TRUE,
             base_time |-> StoredText(0, 1, Timezone),
             repeat_days_normalized |-> Some(<<0, 1, 2>>)],
            [key |-> <<1>>, enabled |-> FALSE, repeat |-> FALSE,
             base_time |-> StoredText(1, 0, Timezone),
             repeat_days_normalized |-> Some(<<>>)] >>,
     parse_errors |-> <<"unmapped_day">>, map_errors |-> <<>>,
     map_locale |-> Some("en"),
     last_event_time |-> Some(StoredText(0, 0, 0)),
     next_alarm_key |-> Some(<<2>>),
     next_alarm_time |-> Some(StoredText(1, 1, Timezone)),
     previous_alarm_key |-> None, previous_alarm_time |-> None, note |-> None,
     schedule |-> [key \in {<<1>>, <<2>>} |->
                     IF key = <<2>> THEN Some(StoredText(1, 1, Timezone)) ELSE None],
     last_refresh_start |-> None,
     last_refresh_end |-> Some(StoredText(0, 0, 0))]
\* they are what the operations of the model store
StoredAsWritten ==
    /\ StoredOneShot("Ann") = StoredAfterEvent("Ann", PayloadOneShot, 0)
    /\ StoredOneShot("Bob") = StoredAfterEvent("Bob", PayloadOneShot, 0)
    /\ StoredWeekdays("Ann") = StoredAfterEvent("Ann", PayloadWeekdays, 0)

JunkText == [fmt |-> "junk", date |-> 0, tod |-> 0, offset |-> None]
MissingText == [fmt |-> "missing", date |-> 0, tod |-> 0, offset |-> None]

SnapOneShot == [slug \in {"ann"} |-> StoredOneShot("Ann")]
SnapWeekdays == [slug \in {"ann"} |-> StoredWeekdays("Ann")]
\* a person whose record is no mapping, next to a well-formed person
SnapBrokenSibling ==
    [slug \in {"ann", "bob"} |->
        IF slug = "ann" THEN StoredWeekdays("Ann")
        ELSE NotAMapping]
SnapBrokenFirst ==
    [slug \in {"ann", "bob"} |->
        IF slug = "ann" THEN NotAMapping
        ELSE StoredOneShot("Bob")]
\* alarm records that are no mapping, lack base_time or hold one that does
\* not parse, among well-formed alarm records
SnapBrokenAlarms ==
    [slug \in {"ann"} |->
        [StoredWeekdays("Ann") EXCEPT !.normalized_alarms =
            << @[1],
               [@[2] EXCEPT !.key = <<3>>, !.base_time = JunkText],
               @[2],
               [@[1] EXCEPT !.key = <<4>>, !.base_time = MissingText],
               NotAMapping >>]]
\* a next_alarm_time that does not parse
SnapJunkNextTime ==
    [slug \in {"ann"} |->
        [StoredOneShot("Ann") EXCEPT
            !.next_alarm_time = Some(JunkText)]]
\* a repeating alarm whose base_time parses and lies before datetime.min in
\* the configured timezone, next to a well-formed alarm and a well-formed person
OverflowText ==
    [fmt |-> "iso", date |-> datetime_min \div DayLen, tod |-> 0,
     offset |-> Some(Timezone + 1)]
SnapOverflowAlarm ==
    [slug \in {"ann", "bob"} |->
        IF slug = "bob" THEN StoredOneShot("Bob")
        ELSE [StoredWeekdays("Ann") EXCEPT !.normalized_alarms =
                 << @[1], [@[1] EXCEPT !.key = <<3>>, !.base_time = OverflowText] >>]]
\* a repeating alarm whose repeat_days_normalized is no list
SnapDaysLost ==
    [slug \in {"ann"} |->
        [StoredWeekdays("Ann") EXCEPT
            !.normalized_alarms[1].repeat_days_normalized = None]]
Snapshots ==
    {None, Some(NotAMapping), Some(SnapOneShot), Some(SnapWeekdays),
     Some(SnapBrokenSibling), Some(SnapBrokenFirst), Some(SnapBrokenAlarms),
     Some(SnapJunkNextTime), Some(SnapOverflowAlarm), Some(SnapDaysLost)}

\* a coordinator that is constructed and not yet set up, over a store left
\* by an earlier run, in which events had been applied and tokens minted
RestoreInit ==
    /\ utcnow \in 0..MaxTime
    /\ person_states = NoOne
    /\ time_listeners = {}
    /\ call_later_timers = {}
    /\ lock = FALSE
    /\ listening = FALSE
    /\ tasks = <<>>
    /\ saves = <<>>
    /\ store \in Snapshots
    /\ token_seq = MaxTokens - 1
    /\ alarm_seq = MaxAlarmEvents - 1
    /\ effect = Effect("boot", "", FALSE)
    /\ CalcIdle

\* async_setup: load the store, then listen for events.  A load that raises
\* ends the setup before the listeners are registered (lines 500-505).
AsyncSetup ==
    /\ effect.op = "boot"
    /\ \E done \in {_async_load_storage(store, utcnow, timedelta_seconds_1)} :
           /\ person_states' = done.states
           /\ time_listeners' = done.listeners
           /\ listening' = ~done.raised
           /\ effect' = Effect(IF done.raised THEN "setup_raised" ELSE "setup",
                               "", FALSE)
    /\ UNCHANGED <<pureVars, utcnow, call_later_timers, lock, tasks, saves, store,
                   token_seq, alarm_seq>>

RestoreNext ==
    \/ AsyncSetup
    \/ (effect.op \notin {"boot", "setup_raised"} /\ Next)

RestoreSpec == RestoreInit /\ [][RestoreNext]_vars

----------------------------------------------------------------------------
(* coordinator.py: teardown *)

\* lines 519-525: call and clear the rollover handle and the refresh handle
\* of every person; a handle whose timer has fired removes nothing
Handles(states) ==
    {states[slug].timer_cancel[1] :
        slug \in {r \in DOMAIN states : states[r].timer_cancel # None}}
RefreshHandles(states) ==
    {states[slug].refresh_timer_cancel[1] :
        slug \in {r \in DOMAIN states : states[r].refresh_timer_cancel # None}}

CancelAll(states, timers, listeners) ==
    [states |-> [slug \in DOMAIN states |->
                    [states[slug] EXCEPT !.timer_cancel = None,
                                         !.refresh_timer_cancel = None]],
     timers |-> {t \in timers : t.token \notin RefreshHandles(states)},
     listeners |-> {l \in listeners : l.id \notin Handles(states)}]

\* async_unload up to its awaited save: it takes no lock, so it can run
\* while a handler is suspended in its save, and tasks that fired timers
\* created before it are still run by the loop after it
AsyncUnload ==
    /\ listening
    /\ listening' = FALSE
    /\ \E done \in {CancelAll(person_states, call_later_timers, time_listeners)} :
           /\ person_states' = done.states
           /\ call_later_timers' = done.timers
           /\ time_listeners' = done.listeners
           /\ saves' = Append(saves, SaveOp("unload", "", done.states, FALSE))
    /\ effect' = Effect("unload", "", FALSE)
    /\ UNCHANGED <<pureVars, utcnow, lock, tasks, store, token_seq, alarm_seq>>

UnloadNext == Next \/ AsyncUnload

UnloadSpec == Init /\ [][UnloadNext]_vars

----------------------------------------------------------------------------
(* coordinator.py: a restart over the snapshot of the run before *)

\* The process ends at any point and a new coordinator is constructed and set
\* up over the store as it was last written (lines 497-508, 540-590).  The
\* timers, the queued callbacks, the awaited saves and the lock of the old
\* process are gone with its event loop.
Restart ==
    /\ \E done \in {_async_load_storage(store, utcnow, timedelta_seconds_1)} :
           /\ person_states' = done.states
           /\ time_listeners' = done.listeners
           /\ listening' = ~done.raised
           /\ effect' = Effect(IF done.raised THEN "setup_raised" ELSE "setup",
                               "", FALSE)
    /\ call_later_timers' = {}
    /\ lock' = FALSE
    /\ tasks' = <<>>
    /\ saves' = <<>>
    /\ UNCHANGED <<pureVars, utcnow, store, token_seq, alarm_seq>>

RestartNext ==
    \/ Restart
    \/ (effect.op # "setup_raised" /\ Next)

RestartSpec == Init /\ [][RestartNext]_vars

----------------------------------------------------------------------------
(* coordinator.py: two persons *)

\* A store whose person is kept under a key that is not the slug of its
\* display name, as a run that derived the slug differently left it: the
\* lookup by display name (lines 650-658, 737-745) is there for such a state.
SnapRenamed == [slug \in {"robert"} |-> StoredOneShot("Bob")]
TwoPersons == {"Ann", "Bob"}

PersonsInit ==
    /\ utcnow = 0
    /\ person_states = NoOne
    /\ time_listeners = {}
    /\ call_later_timers = {}
    /\ lock = FALSE
    /\ listening = FALSE
    /\ tasks = <<>>
    /\ saves = <<>>
    /\ store \in {None, Some(SnapRenamed)}
    /\ token_seq = 0
    /\ alarm_seq = 0
    /\ effect = Effect("boot", "", FALSE)
    /\ CalcIdle

PersonsNext ==
    \/ AsyncSetup
    \/ Tick
    \/ \E person \in TwoPersons :
          HandleAlarmEvent(Some(person), Some(PayloadOneShot))
    \/ \E person \in TwoPersons : HandleRefreshStart(Some(person))
    \/ \E listener \in time_listeners : RolloverTimerFires(listener)
    \/ \E timer \in call_later_timers : RefreshTimerFires(timer)
    \/ RunRollover
    \/ RunRefreshTimeout
    \/ SaveDone

PersonsSpec == PersonsInit /\ [][PersonsNext]_vars

----------------------------------------------------------------------------
(* Calls of the pure functions of helpers.py and of the option readers *)

\* the day names of a Repeat Days text; "Funday" is in no table and "Lundi"
\* only in a custom one
DayLines == {"Monday", "MON", "Wtorek", "Lundi", "Funday"}
LocaleOptions == {"auto", "en", "pl", "de"}
\* custom maps that build: the default, an override of a base entry, a new
\* locale with names of its own, a new locale that shares names with "en",
\* a new locale left empty, and a new locale whose name is "auto"
MapTexts ==
    {"{}", "{'en': {'MON': 6}}", "{'fr': {'Lundi': '0', 'mardi': 1.5}}",
     "{'fr': {'Lundi': 0, 'monday': 3}, 'en': {'Lundi': 1}}",
     "{'fr': {'Lundi': 7, 'mardi': -1, 'jeudi': 'x', 'samedi': null}}",
     "{'auto': {'Lundi': 3, 'Monday': 5, 'MON': 5}}"}
SeqsUpTo(S, n) == UNION {[1..k -> S] : k \in 0..n}

Call(fn, lines, locale_option, custom_map_json, alarms, options) ==
    [fn |-> fn, lines |-> lines, locale_option |-> locale_option,
     custom_map_json |-> custom_map_json, alarms |-> alarms, options |-> options]
RepeatDaysCalls ==
    {Call("normalize_repeat_days", lines, locale_option, text, <<>>, JsonNull) :
        lines \in SeqsUpTo(DayLines, MaxLines),
        locale_option \in LocaleOptions, text \in MapTexts}
DetectCalls ==
    {Call("detect_weekday_locale", lines, locale_option, text, <<>>, JsonNull) :
        lines \in SeqsUpTo(DayLines, MaxLines),
        locale_option \in LocaleOptions, text \in MapTexts}

\* the entries of an alarms payload: well-formed one-shot and repeating alarms,
\* repeating alarms whose days no table or only a custom table knows, an entry
\* that is no object, and entries with a missing, unreadable or overflowing
\* Date or an unreadable State
EntryBodies ==
    {RawAlarm(<<0>>, Some(DateText(1, 0)), "on", "off", <<>>),
     RawAlarm(<<0>>, Some(DateText(0, 1)), "ON", "on", <<"Monday", "MON">>),
     RawAlarm(<<0>>, Some(DateText(0, 1)), "on", "on", <<"Wtorek", "Funday">>),
     RawAlarm(<<0>>, Some(DateText(0, 1)), "on", "on", <<"Lundi">>),
     RawAlarm(<<0>>, Some(DateText(0, 1)), "on", "on", <<"Funday">>),
     RawAlarm(<<0>>, Some(DateText(0, 1)), "on", "on", <<>>),
     NotAnObject(<<0>>),
     RawAlarm(<<0>>, None, "on", "off", <<>>),
     RawAlarm(<<0>>, Some([fmt |-> "junk", date |-> 0, tod |-> 0, offset |-> None]),
              "on", "off", <<>>),
     RawAlarm(<<0>>, Some(DateText(1, 0)), "maybe", "off", <<"Monday">>),
     RawAlarm(<<0>>, Some([fmt |-> "iso", date |-> datetime_min \div DayLen,
                           tod |-> 0, offset |-> Some(Timezone + 1)]),
              "on", "off", <<>>)}
\* the entry at position i of a payload has the key "i"
KeyedEntries(bodies) == [i \in 1..Len(bodies) |-> [bodies[i] EXCEPT !.key = <<i>>]]
EventCalls ==
    {Call("normalize_event", <<>>, locale_option, text, KeyedEntries(bodies), JsonNull) :
        bodies \in SeqsUpTo(EntryBodies, MaxEntries),
        locale_option \in LocaleOptions, text \in MapTexts}
\* every custom-map text of the model: blank, no JSON, JSON of each kind
CustomMapTexts ==
    BLANK_TEXTS \cup {"not json", "{'en': "}
        \cup {JSON_DOCUMENTS[i][1] : i \in 1..Len(JSON_DOCUMENTS)}
BuildCalls ==
    {Call("build_weekday_maps", <<>>, "auto", text, <<>>, JsonNull) :
        text \in CustomMapTexts}
\* the values an options dict can hold under refresh_timeout
TimeoutValues ==
    {JsonInt(3), JsonInt(1), JsonInt(0), JsonInt(0 - 1), JsonStr(" 5 "), JsonStr("0"),
     JsonStr("-2"), JsonStr("soon"), JsonFloat(2), JsonFloat(0), JsonBool(TRUE),
     JsonBool(FALSE), JsonNull, JsonList, JsonInf}
\* entry.options: no dict, a dict without the key, a dict with it
TimeoutCalls ==
    {Call("_refresh_timeout_seconds", <<>>, "auto", "{}", <<>>, options) :
        options \in {JsonNull, JsonDict(<<>>)}
                    \cup {JsonDict(<< <<CONF_REFRESH_TIMEOUT, value>> >>) :
                             value \in TimeoutValues}}
HelperCalls ==
    RepeatDaysCalls \cup DetectCalls \cup EventCalls \cup BuildCalls \cup TimeoutCalls

MapsOf(call) == build_weekday_maps(call.custom_map_json).maps

CallNormalizeRepeatDays ==
    /\ helperCall.fn = "normalize_repeat_days"
    /\ helperResult = None
    /\ helperResult' = Some(normalize_repeat_days(helperCall.lines,
                                                  helperCall.locale_option,
                                                  MapsOf(helperCall)))
    /\ UNCHANGED <<calcVars, helperCall, flowVars, coordVars>>

CallBuildWeekdayMaps ==
    /\ helperCall.fn = "build_weekday_maps"
    /\ helperResult = None
    /\ helperResult' = Some(build_weekday_maps(helperCall.custom_map_json))
    /\ UNCHANGED <<calcVars, helperCall, flowVars, coordVars>>

CallRefreshTimeoutSeconds ==
    /\ helperCall.fn = "_refresh_timeout_seconds"
    /\ helperResult = None
    /\ helperResult' = Some(_refresh_timeout_seconds(helperCall.options))
    /\ UNCHANGED <<calcVars, helperCall, flowVars, coordVars>>

CallDetectWeekdayLocale ==
    /\ helperCall.fn = "detect_weekday_locale"
    /\ helperResult = None
    /\ helperResult' = Some(detect_weekday_locale(helperCall.lines,
                                                  helperCall.locale_option,
                                                  MapsOf(helperCall)))
    /\ UNCHANGED <<calcVars, helperCall, flowVars, coordVars>>

\* normalize_event under the options of the call and the time zone of the
\* model, as _async_process_event calls it (coordinator.py 666-679)
NormalizeCall(alarms, locale_option, custom_map_json) ==
    LET built == build_weekday_maps(custom_map_json)
    IN  IF normalize_event_raises(alarms, Timezone)
        THEN [raised |-> TRUE]
        ELSE [raised |-> FALSE,
              event |-> normalize_event(alarms, Timezone, locale_option,
                                        built.maps, built.errors)]

CallNormalizeEvent ==
    /\ helperCall.fn = "normalize_event"
    /\ helperResult = None
    /\ helperResult' = Some(NormalizeCall(helperCall.alarms, helperCall.locale_option,
                                          helperCall.custom_map_json))
    /\ UNCHANGED <<calcVars, helperCall, flowVars, coordVars>>

HelperInit ==
    /\ calcAlarms = <<>>
    /\ calcNow = 0
    /\ calcResult = NotComputed
    /\ helperCall \in HelperCalls
    /\ helperResult = None
    /\ FlowIdle
    /\ CoordInit

HelperNext ==
    \/ CallNormalizeRepeatDays
    \/ CallDetectWeekdayLocale
    \/ CallNormalizeEvent
    \/ CallBuildWeekdayMaps
    \/ CallRefreshTimeoutSeconds

HelperSpec == HelperInit /\ [][HelperNext]_vars

----------------------------------------------------------------------------
(* config_flow.py: the options flow *)

DictGetOr(dict, k, default) == IF DictHas(dict, k) THEN DictGet(dict, k) ELSE default

_option_str(value, default) == IF value.t = "str" THEN value.s ELSE default
\* the integer, or the exception int() raises past the except clause
_option_int(value, default) ==
    LET parsed == python_int(value)
    IN  IF parsed.raises \in {"TypeError", "ValueError"}
        THEN [n |-> default, raises |-> "none"]
        ELSE IF parsed.raises # "none" THEN [n |-> 0, raises |-> parsed.raises]
        ELSE [n |-> IF parsed.n >= 1 THEN parsed.n ELSE default, raises |-> "none"]

\* FlowHandler.async_show_form and OptionsFlow.async_create_entry
FlowForm(errors) == [type |-> "form", errors |-> errors, data |-> None]
FlowCreateEntry(data) == [type |-> "create_entry", errors |-> <<>>, data |-> Some(data)]

\* variant: the entry is created whatever build_weekday_maps reports
async_step_init_without_validation(options, user_input) ==
    IF user_input.t # "dict" THEN [result |-> FlowForm(<<>>), options |-> options]
    ELSE LET data == << <<CONF_WEEKDAY_LOCALE,
                          JsonStr(_option_str(DictGetOr(user_input.items, CONF_WEEKDAY_LOCALE,
                                                        JsonNull), "auto"))>>,
                        <<CONF_WEEKDAY_CUSTOM_MAP,
                          JsonStr(_option_str(DictGetOr(user_input.items,
                                                        CONF_WEEKDAY_CUSTOM_MAP, JsonNull),
                                              "{}"))>>,
                        <<CONF_REFRESH_TIMEOUT,
                          DictGetOr(user_input.items, CONF_REFRESH_TIMEOUT,
                                    DictGet(DEFAULT_OPTIONS, CONF_REFRESH_TIMEOUT))>> >>
         IN  [result |-> FlowCreateEntry(data), options |-> JsonDict(data)]

\* async_step_init with _async_step_init_internal: the FlowResult and the
\* options of the entry afterwards.  user_input is a dict, or null when the
\* form is opened.  An exception of the inner step gives the fallback form.
async_step_init(options, user_input) ==
    LET current == IF options.t = "dict" THEN DictUpdate(DEFAULT_OPTIONS, options.items)
                   ELSE DEFAULT_OPTIONS
        form_timeout == _option_int(DictGetOr(current, CONF_REFRESH_TIMEOUT, JsonNull),
                                    DictGet(DEFAULT_OPTIONS, CONF_REFRESH_TIMEOUT).n)
        form_locale == _option_str(DictGetOr(user_input.items, CONF_WEEKDAY_LOCALE, JsonNull),
                                   DictGet(DEFAULT_OPTIONS, CONF_WEEKDAY_LOCALE).s)
        form_map == _option_str(DictGetOr(user_input.items, CONF_WEEKDAY_CUSTOM_MAP, JsonNull),
                                DictGet(DEFAULT_OPTIONS, CONF_WEEKDAY_CUSTOM_MAP).s)
        built == build_weekday_maps(form_map)
        errors == IF built.raised \/ built.errors # <<>>
                  THEN << <<"base", "invalid_custom_map">> >> ELSE <<>>
        data == << <<CONF_WEEKDAY_LOCALE, JsonStr(form_locale)>>,
                   <<CONF_WEEKDAY_CUSTOM_MAP, JsonStr(form_map)>>,
                   <<CONF_REFRESH_TIMEOUT,
                     DictGetOr(user_input.items, CONF_REFRESH_TIMEOUT,
                               JsonInt(form_timeout.n))>> >>
    IN  IF form_timeout.raises # "none"
        THEN [result |-> FlowForm(<< <<"base", "unknown">> >>), options |-> options]
        ELSE IF user_input.t # "dict"
        THEN [result |-> FlowForm(<<>>), options |-> options]
        ELSE IF errors = <<>>
        THEN [result |-> FlowCreateEntry(data), options |-> JsonDict(data)]
        ELSE [result |-> FlowForm(errors), options |-> options]

\* what the form's schema admits: a locale of the list, a text or nothing as
\* the custom map, an integer of at least 1 or nothing as the timeout
SubmittedLocales == {"auto", "en", "pl"}
SubmittedTimeouts == {JsonInt(1), JsonInt(3)}
UserInputs ==
    {JsonDict(<< <<CONF_WEEKDAY_LOCALE, JsonStr(locale)>> >> \o map \o timeout) :
        locale \in SubmittedLocales,
        map \in {<<>>} \cup {<< <<CONF_WEEKDAY_CUSTOM_MAP, JsonStr(text)>> >> :
                                text \in CustomMapTexts},
        timeout \in {<<>>} \cup {<< <<CONF_REFRESH_TIMEOUT, value>> >> :
                                    value \in SubmittedTimeouts}}

OptionsFlowStep(user_input) ==
    /\ \E done \in {async_step_init(entry_options, user_input)} :
           /\ entry_options' = done.options
           /\ helperResult' = Some(done.result)
    /\ helperCall' = Call("async_step_init", <<>>, "auto", "{}", <<>>, user_input)
    /\ UNCHANGED <<calcVars, coordVars>>

FlowNext ==
    \/ OptionsFlowStep(JsonNull)
    \/ \E user_input \in UserInputs : OptionsFlowStep(user_input)

FlowSpec == Init /\ [][FlowNext]_vars

----------------------------------------------------------------------------
(* Properties of the coordinator *)

Slugs == {_person_slug(name) : name \in PersonNames}
Known(slug) == slug \in DOMAIN person_states
LiveRolloverTimers(slug) == {l \in time_listeners : l.slug = slug}
LiveRefreshTimers(slug) == {t \in call_later_timers : t.slug = slug}

\* C1: under every interleaving of event handling, rollover timer firings and
\* the rollover tasks they create, each person has at most one live rollover
\* timer.
C1_OneLiveRolloverTimer ==
    \A slug \in Slugs : Cardinality(LiveRolloverTimers(slug)) <= 1

\* the step runs the refresh-timeout task at the head of the task queue
RefreshTimeoutStep ==
    /\ tasks # <<>>
    /\ Head(tasks).kind = "refresh_timeout"
    /\ tasks' = Tail(tasks)
StaleToken ==
    person_states[Head(tasks).slug].refresh_timeout_token # Some(Head(tasks).token)
PendingTokens(slug) ==
    {t.token : t \in LiveRefreshTimers(slug)}
    \cup {tasks[i].token : i \in {j \in 1..Len(tasks) :
             tasks[j].kind = "refresh_timeout" /\ tasks[j].slug = slug}}

\* C2: a refresh-timeout callback whose token differs from the person's current
\* token changes no field of any person, no timer, persists nothing and sends
\* no notification; and refresh_problem is only ever set by the callback that
\* carries the current token, which is the most recently armed one.
C2_StaleTimeoutIsNoOp ==
    [][/\ (RefreshTimeoutStep /\ StaleToken) =>
            /\ person_states' = person_states
            /\ time_listeners' = time_listeners
            /\ call_later_timers' = call_later_timers
            /\ saves' = saves
            /\ store' = store
            /\ ~effect'.notified
       /\ \A slug \in Slugs :
            (/\ Known(slug)
             /\ ~person_states[slug].refresh_problem
             /\ person_states'[slug].refresh_problem) =>
               /\ RefreshTimeoutStep
               /\ Head(tasks).slug = slug
               /\ ~StaleToken
               /\ \A other \in PendingTokens(slug) : other <= Head(tasks).token
      ]_vars

\* a stale callback has just run although a newer refresh is pending, timer armed
C2_Witness ==
    /\ effect.op = "refresh_timeout_stale"
    /\ Known(effect.slug)
    /\ person_states[effect.slug].refresh_timeout_token # None
    /\ person_states[effect.slug].refresh_timer_cancel # None
    /\ ~person_states[effect.slug].refresh_problem

Elapsed(slug) ==
    /\ person_states[slug].last_refresh_start # None
    /\ utcnow >= person_states[slug].last_refresh_start[1] + _refresh_timeout_seconds(EntryOptions).timeout
TimedOut(slug) ==
    /\ person_states[slug].refresh_problem
    /\ person_states[slug].refresh_timeout_token = None
    /\ person_states[slug].refresh_timer_cancel = None
EventHandledFor(slug) ==
    effect.op \in {"event", "refresh_start"} /\ effect.slug = slug

\* C3: once a refresh-start has been processed and its timeout has elapsed,
\* refresh_problem eventually becomes true, with the token and the refresh
\* timer handle cleared, unless an alarm-data event or a newer refresh-start
\* for the person is processed first.
C3_TimeoutSetsProblem ==
    \A slug \in Slugs : \A token \in 1..MaxTokens :
        (/\ Known(slug)
         /\ person_states[slug].refresh_timeout_token = Some(token)
         /\ Elapsed(slug))
        ~> (Known(slug) /\ (TimedOut(slug) \/ EventHandledFor(slug)))

\* the timeout callback has just set refresh_problem
C3_Witness ==
    /\ effect.op = "refresh_timeout"
    /\ Known(effect.slug)
    /\ TimedOut(effect.slug)
    /\ Elapsed(effect.slug)

\* C4: an alarm-data event leaves refresh_problem false, the token none and the
\* refresh timer cancelled, and refresh_problem then stays false until a later
\* refresh-start cycle times out, even if the old timeout callback still fires.
C4_EventDisarmsRefresh ==
    [][\A slug \in Slugs :
        /\ (effect'.op = "event" /\ effect'.slug = slug) =>
              /\ ~person_states'[slug].refresh_problem
              /\ person_states'[slug].refresh_timeout_token = None
              /\ person_states'[slug].refresh_timer_cancel = None
              /\ {t \in call_later_timers' : t.slug = slug} = {}
        /\ (/\ Known(slug)
            /\ ~person_states[slug].refresh_problem
            /\ person_states[slug].refresh_timeout_token = None) =>
              ~person_states'[slug].refresh_problem
      ]_vars

\* the old timeout callback has fired after the alarm-data event and was ignored
C4_Witness ==
    /\ effect.op = "refresh_timeout_stale"
    /\ Known(effect.slug)
    /\ person_states[effect.slug].refresh_timeout_token = None
    /\ ~person_states[effect.slug].refresh_problem
    /\ person_states[effect.slug].last_refresh_start # None
    /\ person_states[effect.slug].last_refresh_end # None

\* C5: each person has at most one live refresh-timeout timer, and after an
\* alarm-data event none.
C5_OneLiveRefreshTimer ==
    /\ \A slug \in Slugs : Cardinality(LiveRefreshTimers(slug)) <= 1
    /\ \A slug \in Slugs :
          (effect.op = "event" /\ effect.slug = slug) => LiveRefreshTimers(slug) = {}

\* a second refresh-start was processed before the first one's timer could
\* fire: the first timer is gone and the second is the only live one
C5_Witness ==
    /\ effect.op = "refresh_start"
    /\ token_seq = 2
    /\ utcnow < RefreshTimeout
    /\ \E timer \in call_later_timers : timer.token = 2
    /\ Cardinality(call_later_timers) = 1

\* the step runs the rollover task at the head of the task queue
RolloverStep ==
    /\ tasks # <<>>
    /\ Head(tasks).kind = "rollover"
    /\ tasks' = Tail(tasks)

\* C6: after a rollover triggered at instant t the new next_alarm_time is none
\* or strictly later than t and strictly later than the next_alarm_time that
\* was armed before it; so without an intervening alarm-data event
\* next_alarm_time strictly increases from rollover to rollover.
C6_RolloverMovesForward ==
    [][RolloverStep =>
        LET slug == Head(tasks).slug
            before == person_states[slug].next_alarm_time
            after == person_states'[slug].next_alarm_time
        IN  \/ after = None
            \/ /\ after[1] > Head(tasks).trigger_time
               /\ before # None => after[1] > before[1]
      ]_vars

----------------------------------------------------------------------------
(* Scheduler inputs *)

AlarmKeys == {<<1>>, <<1, 0>>, <<2>>}
DayLists == {<<>>, <<0>>, <<1>>, <<6>>, <<1, 0>>, <<0, 1, 2, 3, 4, 5, 6>>}

OneShots == [enabled : BOOLEAN, repeat : {FALSE}, base_time : 0..MaxBase,
             repeat_days_normalized : {<<>>}]
Repeating == [enabled : BOOLEAN, repeat : {TRUE}, base_time : 0..(DayLen - 1),
              repeat_days_normalized : DayLists]
AlarmBodies == OneShots \cup Repeating

WithKey(body, key) ==
    [key |-> key, enabled |-> body.enabled, repeat |-> body.repeat,
     base_time |-> body.base_time,
     repeat_days_normalized |-> body.repeat_days_normalized]

\* the scheduler is called on a dict that is still empty, at any instant
CalcInit ==
    /\ calcAlarms = <<>>
    /\ calcNow \in 0..MaxNow
    /\ calcResult = NotComputed
    /\ HelperIdle
    /\ FlowIdle
    /\ CoordInit

\* alarms[key] = alarm for a new key: every dict of at most MaxAlarms alarms
\* is built, in every insertion order
CalcAddAlarm ==
    /\ calcResult = NotComputed
    /\ Len(calcAlarms) < MaxAlarms
    /\ \E key \in AlarmKeys \ KeysOf(calcAlarms), body \in AlarmBodies :
          calcAlarms' = Append(calcAlarms, WithKey(body, key))
    /\ UNCHANGED <<calcNow, calcResult, helperVars, flowVars>>
    /\ UNCHANGED coordVars

CalcCompute ==
    /\ calcResult = NotComputed
    /\ calcResult' = compute_next_alarm(calcAlarms, calcNow, Timezone)
    /\ UNCHANGED <<calcAlarms, calcNow, helperVars, flowVars>>
    /\ UNCHANGED coordVars

CalcNext == CalcAddAlarm \/ CalcCompute

CalcSpec == CalcInit /\ [][CalcNext]_vars

Computed == calcResult # NotComputed
CalcAlarmSet == {calcAlarms[i] : i \in 1..Len(calcAlarms)}
NextOf(alarm) == compute_single_alarm_next(alarm, calcNow, Timezone)

\* C7: compute_single_alarm_next returns none or an instant strictly later
\* than now, for every alarm and every now; so every non-none schedule entry
\* and every non-none next_time of compute_next_alarm is strictly later than now.
C7_NextStrictlyAfterNow ==
    /\ \A a \in CalcAlarmSet : NextOf(a) = None \/ NextOf(a)[1] > calcNow
    /\ Computed =>
          /\ \A k \in DOMAIN calcResult.schedule :
                 \/ calcResult.schedule[k] = None
                 \/ calcResult.schedule[k][1] > calcNow
          /\ calcResult.next_time = None \/ calcResult.next_time[1] > calcNow

\* a repeating alarm whose occurrence of today has passed got a later one,
\* next to a one-shot alarm that is due exactly now
C7_Witness ==
    /\ Computed
    /\ \E a \in CalcAlarmSet :
          /\ a.enabled /\ a.repeat
          /\ InSeq(weekday(LocalDate(calcNow, Timezone)), a.repeat_days_normalized)
          /\ localize(LocalDate(calcNow, Timezone),
                      TimeOfDay(a.base_time, Timezone), Timezone) <= calcNow
          /\ calcResult.schedule[a.key] # None
    /\ \E a \in CalcAlarmSet :
          a.enabled /\ ~a.repeat /\ a.base_time = calcNow

\* the instants the alarms of the input yield
CalcTimes == {NextOf(a)[1] : a \in {b \in CalcAlarmSet : NextOf(b) # None}}
MinTime == CHOOSE t \in CalcTimes : \A u \in CalcTimes : t <= u
KeysAtMin == {a.key : a \in {b \in CalcAlarmSet : NextOf(b) = Some(MinTime)}}
Reversed(s) == [i \in 1..Len(s) |-> s[Len(s) + 1 - i]]

\* C8: compute_next_alarm selects an alarm whose next instant is the minimum
\* over the alarms with a next instant, among those sharing the minimum the
\* one with the smallest key in string order, whatever the insertion order.
C8_MinimumWithLexicalTieBreak ==
    Computed =>
      /\ CalcTimes = {} => calcResult.alarm = None /\ calcResult.next_time = None
      /\ CalcTimes # {} =>
            /\ calcResult.next_time = Some(MinTime)
            /\ calcResult.alarm # None
            /\ calcResult.alarm[1] \in KeysAtMin
            /\ \A k \in KeysAtMin \ {calcResult.alarm[1]} :
                   StrLess(calcResult.alarm[1], k)
      /\ LET other == compute_next_alarm(Reversed(calcAlarms), calcNow, Timezone)
         IN  other.alarm = calcResult.alarm /\ other.next_time = calcResult.next_time

\* two alarms tie on the minimum; the key "10" was inserted after "2" and wins
C8_Witness ==
    /\ Computed
    /\ Len(calcAlarms) = 2
    /\ calcAlarms[1].key = <<2>> /\ calcAlarms[2].key = <<1, 0>>
    /\ CalcTimes # {}
    /\ KeysAtMin = {<<2>>, <<1, 0>>}
    /\ calcResult.alarm = Some(<<1, 0>>)

\* C9: note is no_alarms iff the set is empty, no_enabled iff it is non-empty
\* and every alarm is disabled, no_future iff some alarm is enabled but none
\* yields a future instant, and none iff an alarm was selected.
C9_NoteCases ==
    Computed =>
      /\ calcResult.note = Some("no_alarms") <=> CalcAlarmSet = {}
      /\ calcResult.note = Some("no_enabled") <=>
            (CalcAlarmSet # {} /\ \A a \in CalcAlarmSet : ~a.enabled)
      /\ calcResult.note = Some("no_future") <=>
            ((\E a \in CalcAlarmSet : a.enabled) /\ CalcTimes = {})
      /\ calcResult.note = None <=> calcResult.next_time # None
      /\ calcResult.note = None <=> calcResult.alarm # None

\* an enabled one-shot alarm in the past next to a disabled alarm: no_future
C9_Witness ==
    /\ Computed
    /\ calcResult.note = Some("no_future")
    /\ \E a \in CalcAlarmSet : a.enabled /\ ~a.repeat /\ a.base_time <= calcNow
    /\ \E a \in CalcAlarmSet : ~a.enabled

\* the reference of C10: the instants of the candidate dates of a repeating alarm
ReferenceInstants(alarm, now) ==
    {localize(d, TimeOfDay(alarm.base_time, Timezone), Timezone) :
        d \in {e \in LocalDate(now, Timezone)..(LocalDate(now, Timezone) + 7) :
                  InSeq(weekday(e), alarm.repeat_days_normalized)}}
ReferenceNext(alarm, now) ==
    IF ~alarm.enabled THEN None
    ELSE IF ~alarm.repeat
    THEN (IF alarm.base_time > now THEN Some(alarm.base_time) ELSE None)
    ELSE LET later == {t \in ReferenceInstants(alarm, now) : t > now}
         IN  IF later = {} THEN None
             ELSE Some(CHOOSE t \in later : \A u \in later : t <= u)

\* C10: compute_single_alarm_next agrees with the reference: disabled gives
\* none; an enabled one-shot gives base_time if it is after now, else none; an
\* enabled repeating alarm gives the earliest instant after now among the
\* dates today .. today + 7 whose weekday is a repeat day, else none.
C10_AgreesWithReference ==
    /\ \A a \in CalcAlarmSet : NextOf(a) = ReferenceNext(a, calcNow)
    /\ Computed =>
          \A a \in CalcAlarmSet : calcResult.schedule[a.key] = ReferenceNext(a, calcNow)

\* a weekly alarm whose only day is today and whose time has passed resolves
\* to the date seven days later
C10_Witness ==
    /\ Computed
    /\ \E a \in CalcAlarmSet :
          /\ a.enabled /\ a.repeat
          /\ a.repeat_days_normalized = <<weekday(LocalDate(calcNow, Timezone))>>
          /\ calcResult.schedule[a.key] =
                Some(localize(LocalDate(calcNow, Timezone) + 7,
                              TimeOfDay(a.base_time, Timezone), Timezone))

----------------------------------------------------------------------------
(* coordinator.py: restore, with instants less than a second apart          *)
(*                                                                          *)
(* In FineSpec a tick is half a second.  Its alarms are one-shot alarms:    *)
(* their next occurrence compares instants (helpers.py 379-380) and reads   *)
(* no calendar, so the length of a day does not enter.  A Date text and an  *)
(* event's time_fired carry fractions of a second (helpers.py 108,          *)
(* core.py 55).                                                             *)

ticks_per_second == 2
MaxFine == 3

FineKeys == {<<1>>, <<2>>}
FineBodies == [enabled : BOOLEAN, repeat : {FALSE}, base_time : 0..MaxFine,
               repeat_days_normalized : {<<>>}]
\* the alarm dicts of one or two one-shot alarms, in every insertion order
FineAlarms ==
    {<<WithKey(body, key)>> : body \in FineBodies, key \in FineKeys}
    \cup {<<WithKey(first, keys[1]), WithKey(second, keys[2])>> :
             first \in FineBodies, second \in FineBodies,
             keys \in {pair \in FineKeys \X FineKeys : pair[1] # pair[2]}}

\* what lines 687-701 leave of a new person after an event that carried
\* these alarms and was fired at reference_now, and the snapshot saved then
StateAfterEvent(person, alarms, reference_now) ==
    ApplyComputation([PersonState(person) EXCEPT
                         !.normalized_alarms = alarms,
                         !.map_locale = Some("en"),
                         !.last_event_time = Some(reference_now),
                         !.last_refresh_end = Some(reference_now)],
                     compute_next_alarm(alarms, reference_now, Timezone))
FineSnapshot(alarms, reference_now) ==
    [slug \in {"ann"} |-> as_dict(StateAfterEvent("Ann", alarms, reference_now))]

\* a coordinator that is constructed and not yet set up, at or after the
\* instant of the event whose snapshot the store holds
FineInit ==
    /\ \E alarms \in FineAlarms, reference_now \in 0..MaxFine :
          /\ store = Some(FineSnapshot(alarms, reference_now))
          /\ utcnow \in reference_now..MaxFine
    /\ person_states = NoOne
    /\ time_listeners = {}
    /\ call_later_timers = {}
    /\ lock = FALSE
    /\ listening = FALSE
    /\ tasks = <<>>
    /\ saves = <<>>
    /\ token_seq = 0
    /\ alarm_seq = 0
    /\ effect = Effect("boot", "", FALSE)
    /\ CalcIdle

\* async_setup, as AsyncSetup with the second of FineSpec
FineAsyncSetup ==
    /\ effect.op = "boot"
    /\ \E done \in {_async_load_storage(store, utcnow, ticks_per_second)} :
           /\ person_states' = done.states
           /\ time_listeners' = done.listeners
           /\ listening' = ~done.raised
           /\ effect' = Effect(IF done.raised THEN "setup_raised" ELSE "setup",
                               "", FALSE)
    /\ UNCHANGED <<pureVars, utcnow, call_later_timers, lock, tasks, saves, store,
                   token_seq, alarm_seq>>

\* after the setup the restored timers are delivered and their rollovers run
FineNext ==
    \/ FineAsyncSetup
    \/ \E listener \in time_listeners : RolloverTimerFires(listener)
    \/ RunRollover
    \/ SaveDone

FineSpec == FineInit /\ [][FineNext]_vars

----------------------------------------------------------------------------
(* Properties that join the scheduler and the coordinator *)

\* the enabled repeating alarms with at least one repeat day, all in 0..6
ResolvingAlarms ==
    {WithKey(body, <<1>>) :
        body \in {b \in Repeating : b.enabled /\ b.repeat_days_normalized # <<>>}}
IsResolving(alarm) ==
    /\ alarm.enabled
    /\ alarm.repeat
    /\ alarm.repeat_days_normalized # <<>>
    /\ \A i \in 1..Len(alarm.repeat_days_normalized) :
           alarm.repeat_days_normalized[i] \in 0..6
HasResolvingAlarm(state) ==
    \E i \in 1..Len(state.normalized_alarms) : IsResolving(state.normalized_alarms[i])
AlwaysResolves ==
    \A alarm \in ResolvingAlarms : \A now \in 0..MaxNow :
        IsResolving(alarm) /\ compute_single_alarm_next(alarm, now, Timezone) # None

\* C11: compute_single_alarm_next returns an instant for every enabled
\* repeating alarm with a non-empty list of repeat days in 0..6 and every now;
\* and a person whose alarms include such an alarm has a next_alarm_time and
\* no note, after every alarm-data event and every rollover.
C11_RepeatingAlwaysResolves ==
    /\ AlwaysResolves
    /\ \A slug \in Slugs :
          (Known(slug) /\ HasResolvingAlarm(person_states[slug])) =>
              /\ person_states[slug].next_alarm_time # None
              /\ person_states[slug].note = None

\* a rollover has just moved a person with a repeating alarm to its next day
C11_Witness ==
    /\ effect.op = "rollover"
    /\ Known(effect.slug)
    /\ HasResolvingAlarm(person_states[effect.slug])
    /\ person_states[effect.slug].previous_alarm_time # None
    /\ person_states[effect.slug].next_alarm_time # None
    /\ person_states[effect.slug].next_alarm_time[1] >
           person_states[effect.slug].previous_alarm_time[1]

\* C12: when the handling of an alarm-data event raises, the coordinator is as
\* it was before the event: no PersonState is created, no field of any
\* PersonState and no timer changes, and nothing is persisted.
C12_FailedEventChangesNothing ==
    [][effect'.op = "event_raised" =>
        /\ person_states' = person_states
        /\ time_listeners' = time_listeners
        /\ call_later_timers' = call_later_timers
        /\ saves' = saves
        /\ store' = store
      ]_vars

\* the events that lack a person, or whose alarms are no mapping
AlarmEvent(person, alarms) ==
    [event_type |-> EVENT_NEXT_ALARM, person |-> person, alarms |-> alarms,
     time_fired |-> utcnow]
RefreshStartEvent(person) ==
    [event_type |-> EVENT_REFRESH_START, person |-> person, alarms |-> None,
     time_fired |-> utcnow]
MalformedAlarmEvents ==
    {AlarmEvent(person, alarms) : person \in EventPersons, alarms \in EventAlarms}
    \ {AlarmEvent(person, alarms) :
          person \in EventPersons \ {None}, alarms \in EventAlarms \ {None}}
LeavesAll(done) ==
    /\ done.dropped
    /\ done.states = person_states
    /\ done.timers = call_later_timers
    /\ done.listeners = time_listeners

\* C13: an alarm-data event without a person or whose alarms are no mapping,
\* and a refresh-start event without a person, is dropped: in every state the
\* handler returns with every person and every timer as they were, and the
\* step that drops an event creates no person, changes no field and no timer,
\* saves no snapshot, sends no notification and leaves the lock free.
C13_DroppedEventChangesNothing ==
    [][/\ \A event \in MalformedAlarmEvents :
            LeavesAll(_async_process_event(person_states, event,
                                           call_later_timers, time_listeners))
       /\ LeavesAll(_async_process_refresh_start(
                        person_states, RefreshStartEvent(None), call_later_timers,
                        time_listeners, token_seq + 1, utcnow))
       /\ effect'.op \in {"event_dropped", "refresh_start_dropped"} =>
            /\ person_states' = person_states
            /\ time_listeners' = time_listeners
            /\ call_later_timers' = call_later_timers
            /\ tasks' = tasks
            /\ saves' = saves
            /\ store' = store
            /\ ~effect'.notified
            /\ ~lock'
      ]_vars

\* an event was dropped while a person with a live rollover timer and a live
\* refresh timer was known
C13_Witness ==
    /\ effect.op \in {"event_dropped", "refresh_start_dropped"}
    /\ \E slug \in Slugs :
          /\ Known(slug)
          /\ LiveRolloverTimers(slug) # {}
          /\ LiveRefreshTimers(slug) # {}
    /\ store # None

\* C14: every event handler ends and releases the lock: a handler that drops
\* its event or raises leaves the lock free at once, and a handler that waits
\* for its save releases the lock when the save completes, so the lock is
\* never held forever and a later event finds it free.
C14_LockIsReleased ==
    /\ [][effect'.op \in {"event_dropped", "refresh_start_dropped", "event_raised"}
            => ~lock']_vars
    /\ (lock ~> ~lock)

\* a second alarm-data event is being handled after an alarm-data event and a
\* refresh-start event were handled to their end
C14_Witness ==
    /\ effect.op = "event"
    /\ lock
    /\ alarm_seq = 2
    /\ token_seq >= 1

\* the event handlers that have started and have not yet sent their final
\* notification: they are suspended in their save
HandlerOps == {"event", "refresh_start"}
HandlersInFlight == {i \in 1..Len(saves) : saves[i].op \in HandlerOps}

\* C15: at most one event handler, alarm-data or refresh-start, is between
\* its start and its final notification: a handler starts only when none is
\* in flight, and the lock is held exactly while one is.
C15_OneHandlerAtATime ==
    [][/\ effect'.op \in HandlerOps \cup {"event_dropped", "refresh_start_dropped",
                                          "event_raised"}
            => (~lock /\ HandlersInFlight = {})
       /\ Cardinality(HandlersInFlight') <= 1
       /\ lock' <=> (HandlersInFlight' # {})
      ]_vars

\* a refresh-start handler is suspended in its save after an alarm-data
\* handler has run to its end, while a rollover is suspended as well
C15_Witness ==
    /\ effect.op = "rollover"
    /\ lock
    /\ alarm_seq >= 1
    /\ store # None
    /\ Len(saves) = 2
    /\ saves[1].op = "refresh_start"
    /\ saves[2].op = "rollover"

\* a PersonState as one whole operation leaves it: the selected alarm, its
\* time, the schedule, the note and the rollover handle belong together, and
\* so do the refresh token and the refresh handle
WhollyUpdated(state) ==
    /\ (state.next_alarm_time = None) <=> (state.next_alarm_key = None)
    /\ DOMAIN state.schedule = KeysOf(state.normalized_alarms)
    /\ state.next_alarm_key # None =>
          /\ state.next_alarm_key[1] \in KeysOf(state.normalized_alarms)
          /\ state.schedule[state.next_alarm_key[1]] = state.next_alarm_time
    /\ state.last_event_time # None =>
          ((state.note = None) <=> (state.next_alarm_time # None))
    /\ (state.next_alarm_time # None) <=> (state.timer_cancel # None)
    /\ state.refresh_timer_cancel = state.refresh_timeout_token
    /\ state.refresh_problem => state.refresh_timeout_token = None

\* C16: every operation makes all its writes to PersonState fields and timer
\* handles in the step that starts it, before its awaited save: the step in
\* which a save completes writes no PersonState field and no timer, and in
\* every state that another operation can start from every PersonState is
\* wholly updated.
C16_WritesBeforeSuspension ==
    [][/\ effect'.op = "saved" =>
            /\ person_states' = person_states
            /\ time_listeners' = time_listeners
            /\ call_later_timers' = call_later_timers
       /\ \A slug \in DOMAIN person_states' : WhollyUpdated(person_states'[slug])
      ]_vars

\* a rollover has run while the handler of an alarm-data event was suspended
\* in its save, and has changed what the handler had written
C16_Witness ==
    /\ effect.op = "rollover"
    /\ Len(saves) = 2
    /\ saves[1].op = "event"
    /\ saves[2].op = "rollover"
    /\ saves[1].data # saves[2].data
    /\ \A slug \in DOMAIN person_states : WhollyUpdated(person_states[slug])

\* no operation is suspended in its save, and the coordinator is set up
Quiescent == saves = <<>> /\ effect.op # "boot"
Persisted(slug) ==
    /\ store # None
    /\ IsMapping(store[1])
    /\ slug \in DOMAIN store[1]
    /\ store[1][slug] = as_dict(person_states[slug])

\* C17: every mutation of a PersonState, the recompute at restore included,
\* is followed by a save that includes it: whenever no operation is in
\* flight, the stored snapshot holds the as_dict of every person in memory.
C17_SnapshotFollowsMutation ==
    Quiescent => \A slug \in DOMAIN person_states : Persisted(slug)

\* the state of a person after the snapshot of the current states is loaded
\* by a start at reference_now, and the instants at which a start can follow
Restored(slug, reference_now) ==
    _async_load_storage(Some(_storage_payload(person_states)), reference_now,
                        timedelta_seconds_1).states[slug]
RestoreTimes == utcnow..(MaxTime + DayLen)
StillFuture(slug, reference_now) ==
    /\ person_states[slug].next_alarm_time # None
    /\ reference_now <= person_states[slug].next_alarm_time[1]

ValidAlarmRecords(raw_alarms) ==
    SelectSeq(raw_alarms,
              LAMBDA alarm_data : /\ IsMapping(alarm_data)
                                  /\ parse_datetime(alarm_data.base_time) # None)
StoredPersons == IF store # None /\ IsMapping(store[1]) THEN store[1] ELSE NoOne

\* C19: a restore never fails as a whole and loses no well-formed data to a
\* malformed sibling: the setup step completes, every stored person record
\* that is a mapping is restored, and of each restored person every alarm
\* record with a valid base_time is restored, the malformed ones skipped.
C19_RestoreSparesWellFormed ==
    [][effect.op = "boot" =>
         /\ effect'.op = "setup"
         /\ \A slug \in DOMAIN StoredPersons :
               IsMapping(StoredPersons[slug]) =>
                   /\ slug \in DOMAIN person_states'
                   /\ KeysOf(person_states'[slug].normalized_alarms)
                        = KeysOf(ValidAlarmRecords(StoredPersons[slug].normalized_alarms))
      ]_vars

\* the alarm-data events that are processed to their end, fired at any
\* instant up to now, and the fields that processing one of them now, over
\* the current states, gives its person
CompletedEvents ==
    {[event_type |-> EVENT_NEXT_ALARM, person |-> Some(name),
      alarms |-> Some(payload), time_fired |-> time_fired] :
        name \in PersonNames,
        payload \in {p \in Payloads : ~normalize_event_raises(p, Timezone)},
        time_fired \in 0..MaxTime}
ResultOf(event) ==
    LET done == _async_process_event(person_states, event, call_later_timers,
                                     time_listeners)
        state == done.states[done.slug]
    IN  [normalized_alarms |-> state.normalized_alarms,
         next_alarm_key |-> state.next_alarm_key,
         next_alarm_time |-> state.next_alarm_time,
         note |-> state.note,
         schedule |-> state.schedule]

\* what the payload and the timestamp of an event determine under the
\* options and the timezone: an expression of no variable, so of neither the
\* wall clock nor a prior state
DeterminedBy(payload, time_fired) ==
    LET normalized == NormalizedEvents[payload]
        computation == compute_next_alarm(normalized.alarms, time_fired, Timezone)
    IN  [normalized_alarms |-> normalized.alarms,
         next_alarm_key |-> computation.alarm,
         next_alarm_time |-> computation.next_time,
         note |-> computation.note,
         schedule |-> computation.schedule]

\* C20: processing an alarm-data event is deterministic in the event: for a
\* fixed payload, event timestamp, options and timezone, the resulting
\* normalized_alarms, next_alarm_key, next_alarm_time, note and schedule are
\* the same at every wall-clock time at which the event is processed and
\* over every prior state of the person.
C20_EventResultIsDeterministic ==
    \A event \in CompletedEvents :
        event.time_fired <= utcnow =>
            ResultOf(event) = DeterminedBy(event.alarms[1], event.time_fired)

\* a person holds alarms of an earlier event, and an event fired before now
\* is processed late: its result differs from what the wall clock would give
C20_Witness ==
    \E event \in CompletedEvents :
        /\ event.time_fired < utcnow
        /\ _person_slug(event.person[1]) \in DOMAIN person_states
        /\ person_states[_person_slug(event.person[1])].normalized_alarms
              \notin {<<>>, ResultOf(event).normalized_alarms}
        /\ ResultOf(event).next_alarm_time
              # compute_next_alarm(ResultOf(event).normalized_alarms, utcnow,
                                   Timezone).next_time

-----------------------------------------------------------------------------
(* Properties of the timers, the teardown and the two sub-state-machines *)

\* no operation is suspended in its save and no fired timer waits for its task
Settled == saves = <<>> /\ tasks = <<>> /\ effect.op # "boot"

\* C21: whenever no operation is in flight and no callback of a fired timer
\* is pending, a person has a live rollover timer if and only if its
\* next_alarm_time is not none, and the target of that timer is next_alarm_time.
C21_TimerTracksNextAlarm ==
    Settled =>
        \A slug \in DOMAIN person_states :
            /\ LiveRolloverTimers(slug) # {}
                  <=> person_states[slug].next_alarm_time # None
            /\ \A listener \in LiveRolloverTimers(slug) :
                   Some(listener.point_in_time) = person_states[slug].next_alarm_time

\* the next alarm of the person is due: its time is T and the clock is at or past T
DueAt(slug, T) ==
    /\ Known(slug)
    /\ person_states[slug].next_alarm_time = Some(T)
    /\ utcnow >= T
MovedPast(slug, T) ==
    /\ Known(slug)
    /\ \/ person_states[slug].next_alarm_time = None
       \/ person_states[slug].next_alarm_time[1] > T

\* C22: when the next_alarm_time of a person is T and the clock reaches T,
\* then, timers being delivered and tasks run, a rollover (or an alarm-data
\* event) of that person runs and next_alarm_time becomes none or strictly
\* later than T: it does not stay in the past forever.
C22_DueAlarmRollsOver ==
    \A slug \in Slugs : \A T \in 0..MaxTime :
        DueAt(slug, T) ~> MovedPast(slug, T)

\* a rollover has just run for a person at or after the time that was due,
\* and the next alarm it selected is strictly later
C22_Witness ==
    \E slug \in DOMAIN person_states :
        /\ effect.op = "rollover" /\ effect.slug = slug
        /\ person_states[slug].previous_alarm_time # None
        /\ person_states[slug].next_alarm_time # None
        /\ person_states[slug].next_alarm_time[1]
              > person_states[slug].previous_alarm_time[1]

\* C23: the teardown cancels the rollover timer and the refresh-timeout timer
\* of every person and clears both handles before it saves the final
\* snapshot: when the final save starts, no timer of any person is live.
C23_TeardownCancelsTimers ==
    [][effect'.op = "unload" =>
          /\ time_listeners' = {}
          /\ call_later_timers' = {}
          /\ \A slug \in DOMAIN person_states' :
                /\ person_states'[slug].timer_cancel = None
                /\ person_states'[slug].refresh_timer_cancel = None
          /\ saves' # <<>>
          /\ saves'[Len(saves')].op = "unload"
      ]_vars

AlarmFields ==
    {"normalized_alarms", "parse_errors", "map_errors", "next_alarm_key",
     "next_alarm_time", "previous_alarm_key", "previous_alarm_time", "note",
     "schedule", "timer_cancel"}
RefreshFields ==
    {"last_refresh_start", "last_refresh_end", "refresh_problem",
     "refresh_timeout_token", "refresh_timer_cancel"}
RefreshOps == {"refresh_start", "refresh_start_dropped", "refresh_timeout",
               "refresh_timeout_stale"}
StateBefore(slug) ==
    IF slug \in DOMAIN person_states THEN person_states[slug] ELSE PersonState("")
KeepsFields(fields) ==
    \A slug \in DOMAIN person_states' : \A field \in fields :
        person_states'[slug][field] = StateBefore(slug)[field]

\* C24: a refresh-start event and a refresh-timeout callback leave every person's
\* normalized_alarms, parse and map errors, next_alarm_key, next_alarm_time,
\* previous_alarm_key, previous_alarm_time, note, schedule and rollover timer as
\* they were; a rollover leaves normalized_alarms, last_refresh_start,
\* last_refresh_end, refresh_problem, the refresh token and the refresh timer as
\* they were.
C24_SubMachinesAreIndependent ==
    [][/\ effect'.op \in RefreshOps =>
              /\ KeepsFields(AlarmFields)
              /\ time_listeners' = time_listeners
       /\ effect'.op = "rollover" =>
              /\ KeepsFields(RefreshFields \cup {"normalized_alarms"})
              /\ call_later_timers' = call_later_timers]_vars

\* a refresh cycle of a person times out after a rollover of that person, with an
\* alarm still ahead and its timer armed
C24_Witness ==
    \E slug \in DOMAIN person_states :
        /\ effect.op = "refresh_timeout"
        /\ effect.slug = slug
        /\ person_states[slug].previous_alarm_time # None
        /\ person_states[slug].next_alarm_time # None
        /\ person_states[slug].timer_cancel # None
        /\ person_states[slug].refresh_problem

-----------------------------------------------------------------------------
(* Properties of the weekday tables, the normalization and the options *)

Returned(fn) == helperCall.fn = fn /\ helperResult # None
NoDuplicates(seq) == \A i, j \in 1..Len(seq) : seq[i] = seq[j] => i = j
\* the lines of the call that some locale table knows
MappedLines(lines, maps) ==
    {i \in 1..Len(lines) :
        \E m \in 1..Len(maps) : DictHas(maps[m][2], normalize_day_key(lines[i]))}
\* the weekday a known line resolves to: the table of the detected locale
\* first, then the other tables in order
ResolvedDay(line, locale_option, lines, maps) ==
    FirstMatch(FallbackMaps(maps, detect_weekday_locale(lines, locale_option, maps)),
               normalize_day_key(line))[1]

\* C25 (as stated): the repeat days of a repeating alarm hold no weekday twice,
\* and there are as many of them as there are distinct day names in the Repeat
\* Days input that some locale table knows.
C25_OneDayPerMappedName ==
    Returned("normalize_repeat_days") /\ helperResult[1].normalized # <<>> =>
        /\ NoDuplicates(helperResult[1].normalized)
        /\ Len(helperResult[1].normalized) =
               Cardinality({normalize_day_key(helperCall.lines[i]) :
                               i \in MappedLines(helperCall.lines, MapsOf(helperCall))})

\* C25 (amended): the repeat days of a repeating alarm hold no weekday twice,
\* and there are as many of them as there are distinct weekday indices that
\* the known day names of the Repeat Days input resolve to; a line is in error
\* exactly when no table knows it.
C25_OneDayPerWeekday ==
    Returned("normalize_repeat_days") =>
        LET lines == helperCall.lines
            maps == MapsOf(helperCall)
            days == helperResult[1]
        IN  /\ NoDuplicates(days.normalized)
            /\ Len(days.normalized) =
                   Cardinality({ResolvedDay(lines[i], helperCall.locale_option, lines, maps) :
                                   i \in MappedLines(lines, maps)})
            /\ Len(days.localized) = Len(days.normalized)
            /\ Len(days.errors) = Len(lines) - Cardinality(MappedLines(lines, maps))

\* three lines: two names of one weekday and a name no table knows
C25_Witness ==
    /\ Returned("normalize_repeat_days")
    /\ Len(helperCall.lines) = 3
    /\ Len(helperResult[1].normalized) = 1
    /\ Cardinality(MappedLines(helperCall.lines, MapsOf(helperCall))) = 2
    /\ helperCall.lines[1] # helperCall.lines[2]
    /\ helperResult[1].errors # <<>>

HasDays(alarm) ==
    alarm.repeat =>
        /\ alarm.repeat_days_normalized # <<>>
        /\ \A i \in 1..Len(alarm.repeat_days_normalized) :
               alarm.repeat_days_normalized[i] \in 0..6

\* C26: every alarm held in a person's normalized_alarms with repeat = true has
\* a non-empty repeat_days_normalized whose entries are all weekday indices in
\* 0..6.
C26_RepeatingAlarmHasDays ==
    \A slug \in DOMAIN person_states :
        \A i \in 1..Len(person_states[slug].normalized_alarms) :
            HasDays(person_states[slug].normalized_alarms[i])

\* an entry that is well-formed on its own: an object with a Date that parses,
\* valid State, Repeat and Snooze and, with Repeat on, a day some table knows
WellFormed(raw, maps) ==
    /\ raw.mapping
    /\ raw.Date # None
    /\ parse_alarm_datetime(raw.Date[1], Timezone) # None
    /\ ~parse_alarm_datetime_overflows(raw.Date[1], Timezone)
    /\ parse_on_off(raw.State) # None
    /\ parse_on_off(raw.Repeat) # None
    /\ parse_on_off(raw.Snooze) # None
    /\ parse_on_off(raw.Repeat)[1] => MappedLines(raw.RepeatDays, maps) # {}
\* the payload with an entry that is no object put in front of entry `at`
WithNonMapping(alarms, at) ==
    SubSeq(alarms, 1, at - 1) \o <<NotAnObject(<<0>>)>> \o SubSeq(alarms, at, Len(alarms))

\* C27: normalization isolates errors per alarm: an entry that is well-formed
\* on its own is present in the result whatever the other entries of the
\* payload contain, and adding an entry that is no object changes neither
\* map_locale nor the normalized alarm of any other key.
C27_ErrorsStayWithTheirAlarm ==
    Returned("normalize_event") =>
        LET result == helperResult[1]
            maps == MapsOf(helperCall)
        IN  /\ \A i \in 1..Len(helperCall.alarms) :
                   WellFormed(helperCall.alarms[i], maps) =>
                       /\ ~result.raised
                       /\ helperCall.alarms[i].key \in KeysOf(result.event.alarms)
            /\ \A at \in 1..(Len(helperCall.alarms) + 1) :
                   LET other == NormalizeCall(WithNonMapping(helperCall.alarms, at),
                                              helperCall.locale_option,
                                              helperCall.custom_map_json)
                   IN  /\ other.raised = result.raised
                       /\ ~result.raised =>
                              /\ other.event.map_locale = result.event.map_locale
                              /\ other.event.alarms = result.event.alarms

\* the number of supplied day names that the table of locale number m knows
Known_in(m, lines, maps) ==
    Cardinality({i \in 1..Len(lines) : DictHas(maps[m][2], normalize_day_key(lines[i]))})

\* C28: detect_weekday_locale with an option other than "auto" returns the
\* option if it is a key of maps and the first locale of maps otherwise,
\* whatever the lines; with "auto" it returns the locale whose table knows
\* most of the supplied day names, the earliest such locale in table order
\* (the first locale when no lines are supplied); the result is a key of maps.
C28_LocaleDetection ==
    Returned("detect_weekday_locale") =>
        LET maps == MapsOf(helperCall)
            lines == helperCall.lines
            locale == helperResult[1]
        IN  /\ DictHas(maps, locale)
            /\ helperCall.locale_option # "auto" =>
                   locale = IF DictHas(maps, helperCall.locale_option)
                            THEN helperCall.locale_option ELSE maps[1][1]
            /\ helperCall.locale_option = "auto" =>
                   \E m \in 1..Len(maps) :
                       /\ maps[m][1] = locale
                       /\ \A k \in 1..Len(maps) : Known_in(k, lines, maps) <= Known_in(m, lines, maps)
                       /\ \A k \in 1..(m - 1) : Known_in(k, lines, maps) < Known_in(m, lines, maps)

\* "auto" with two locales that know as many of the lines as each other, and
\* more than none: the earlier one is returned
C28_Witness ==
    /\ Returned("detect_weekday_locale")
    /\ helperCall.locale_option = "auto"
    /\ LET maps == MapsOf(helperCall)
       IN  \E m, k \in 1..Len(maps) :
               /\ m < k
               /\ maps[m][1] = helperResult[1]
               /\ Known_in(m, helperCall.lines, maps) = Known_in(k, helperCall.lines, maps)
               /\ Known_in(m, helperCall.lines, maps) > 0

\* the option of the call is absent, cannot be read as an integer, or is below 1
TimeoutUnusable(options) ==
    \/ options.t # "dict"
    \/ ~DictHas(options.items, CONF_REFRESH_TIMEOUT)
    \/ LET timeout == python_int(DictGet(options.items, CONF_REFRESH_TIMEOUT))
       IN  timeout.raises # "none" \/ timeout.n < 1

\* C29: an unusable configuration value never makes the core fail: on a text
\* that is no JSON, or JSON that is no object, build_weekday_maps returns the
\* built-in base table and one error; the effective refresh timeout is always
\* an integer of at least 1, the default when the option is absent, cannot be
\* read as an integer, or is below 1.
C29_UnusableOptionsFallBack ==
    /\ Returned("build_weekday_maps")
           /\ helperCall.custom_map_json \notin BLANK_TEXTS
           /\ json_loads(helperCall.custom_map_json).t # "dict" =>
               /\ ~helperResult[1].raised
               /\ helperResult[1].maps = BaseMaps
               /\ Len(helperResult[1].errors) = 1
    /\ Returned("_refresh_timeout_seconds") =>
           /\ helperResult[1].raises = "none"
           /\ helperResult[1].timeout >= 1
           /\ TimeoutUnusable(helperCall.options) =>
                  helperResult[1].timeout = DictGet(DEFAULT_OPTIONS, CONF_REFRESH_TIMEOUT).n

Submitted(user_input, key) == DictGet(user_input.items, key).s
SubmittedMap(user_input) ==
    IF DictHas(user_input.items, CONF_WEEKDAY_CUSTOM_MAP)
    THEN Submitted(user_input, CONF_WEEKDAY_CUSTOM_MAP)
    ELSE DictGet(DEFAULT_OPTIONS, CONF_WEEKDAY_CUSTOM_MAP).s
StoredOption(options, key) == DictGet(options.items, key).s

----------------------------------------------------------------------------
(* Properties of the rollover, the restore and the persons *)

\* C31: after every rollover of a person, previous_alarm_key is the
\* next_alarm_key and previous_alarm_time the next_alarm_time that the person
\* held immediately before the rollover, whatever events were handled in
\* between and whatever the trigger instant at or after the armed time.
C31_RolloverRecordsFiredAlarm ==
    [][RolloverStep =>
        LET slug == Head(tasks).slug
            before == person_states[slug]
            after == person_states'[slug]
        IN  /\ after.previous_alarm_key = before.next_alarm_key
            /\ after.previous_alarm_time = before.next_alarm_time
      ]_vars

\* the next_alarm_time the store holds for the person
StoredNextAlarmTime(slug) == _restore_datetime(store[1][slug].next_alarm_time)

\* C32: when the setup runs at or before the stored next_alarm_time of a
\* person (the two being equal included), and the stored alarms are those
\* the time was computed from, the restored next_alarm_time is the stored one
\* and the live rollover timer of the person is armed for it.
C32_RestoreKeepsPendingAlarm ==
    effect.op = "setup" =>
        \A slug \in DOMAIN person_states :
            (/\ StoredNextAlarmTime(slug) # None
             /\ utcnow <= StoredNextAlarmTime(slug)[1])
            => /\ person_states[slug].next_alarm_time = StoredNextAlarmTime(slug)
               /\ \E listener \in LiveRolloverTimers(slug) :
                      /\ Some(listener.id) = person_states[slug].timer_cancel
                      /\ Some(listener.point_in_time) = StoredNextAlarmTime(slug)

\* the state from_dict gives for the stored person, and the state a rollover
\* triggered at trigger_time leaves of it
StoredState(slug) == from_dict(slug, store[1][slug])
DeferredRollover(slug, trigger_time) ==
    _async_rollover(PutState(NoOne, slug, StoredState(slug)), slug, trigger_time, {})
StoredTimePassed(slug) ==
    /\ StoredNextAlarmTime(slug) # None
    /\ utcnow > StoredNextAlarmTime(slug)[1]
TimerTargets(listeners, slug) ==
    {listener.point_in_time : listener \in {l \in listeners : l.slug = slug}}

\* C33: when the setup runs after the stored next_alarm_time of a person, the
\* restored next_alarm_key, next_alarm_time, note, schedule,
\* previous_alarm_key, previous_alarm_time and armed rollover timer are those
\* a rollover triggered at the instant of the setup leaves of the stored
\* state, and a restored next_alarm_time is strictly after that instant.
C33_LateRestoreIsDeferredRollover ==
    effect.op = "setup" =>
        \A slug \in DOMAIN person_states :
            StoredTimePassed(slug) =>
                LET restored == person_states[slug]
                    rolled == DeferredRollover(slug, utcnow)
                IN  /\ \A field \in {"next_alarm_key", "next_alarm_time", "note",
                                     "schedule", "previous_alarm_key",
                                     "previous_alarm_time"} :
                           restored[field] = rolled.states[slug][field]
                    /\ TimerTargets(time_listeners, slug)
                           = TimerTargets(rolled.listeners, slug)
                    /\ restored.next_alarm_time # None
                           => restored.next_alarm_time[1] > utcnow

\* the days of a Repeat Days text resolved with the table of one locale
\* first and the other tables after it, in table order
ResolvedWith(lines, locale, maps) ==
    MapLines(lines, FallbackMaps(maps, locale),
             [localized |-> <<>>, normalized |-> <<>>, errors |-> <<>>]).normalized

\* C34: the map_locale of an event is the one locale chosen from the Repeat
\* Days lines of all its mapping-shaped alarms together, and every repeating
\* alarm of the event has its day names resolved by the table of map_locale
\* first and by the other tables, in table order, only after it: a day name
\* that the table of map_locale holds maps to the index of that table.
C34_EventWideLocale ==
    (Returned("normalize_event") /\ ~helperResult[1].raised) =>
        LET event == helperResult[1].event
            maps == MapsOf(helperCall)
            map_locale == detect_weekday_locale(CollectRepeatLines(helperCall.alarms),
                                                helperCall.locale_option, maps)
            table == DictGet(maps, map_locale)
        IN  /\ event.map_locale = map_locale
            /\ \A i \in 1..Len(event.alarms) :
                   LET alarm == event.alarms[i]
                       lines == AlarmAt(helperCall.alarms, alarm.key).RepeatDays
                   IN  alarm.repeat =>
                           /\ alarm.repeat_days_normalized
                                  = ResolvedWith(lines, map_locale, maps)
                           /\ \A n \in 1..Len(lines) :
                                  DictHas(table, normalize_day_key(lines[n])) =>
                                      InSeq(DictGet(table, normalize_day_key(lines[n])),
                                            alarm.repeat_days_normalized)

\* the operations that persist and notify, the step in which one of them runs
\* up to its awaited save, and the step in which the oldest save completes
NotifyingOps == {"event", "refresh_start", "rollover", "refresh_timeout"}
OperationStep ==
    /\ effect'.op \in NotifyingOps
    /\ saves' = Append(saves, SaveOp(effect'.op, effect'.slug, person_states',
                                     effect'.op \in HandlerOps))
SaveCompletes ==
    /\ saves # <<>>
    /\ saves' = Tail(saves)
\* the timers of the person are armed for what its state asks
TimersArmed(state) ==
    /\ state.next_alarm_time # None => state.timer_cancel # None
    /\ state.refresh_timeout_token # None => state.refresh_timer_cancel # None

\* C35: each handled alarm-data event, refresh-start event, rollover and
\* effective refresh timeout sends exactly one update notification, for the
\* slug of its person: none before its save, one when the save of the snapshot
\* taken after its mutation has completed, with the timers of the person
\* armed; and at the notification the state of the person in memory is the
\* one that save has persisted.
C35_NotifyAfterSave ==
    [][/\ effect'.op \in NotifyingOps => OperationStep /\ ~effect'.notified
       /\ effect'.notified <=> SaveCompletes
       /\ SaveCompletes =>
              LET save == Head(saves)
              IN  /\ save.op \in NotifyingOps
                  /\ effect'.slug = save.slug
                  /\ store' = Some(save.data)
                  /\ TimersArmed(person_states'[save.slug])
                  /\ as_dict(person_states'[save.slug]) = save.data[save.slug]
      ]_vars

\* the notes of a person without a concrete next alarm
EmptyNotes == {"no_alarms", "no_enabled", "no_future"}

\* C36: in every reachable state every person has note none exactly when its
\* next_alarm_time is set, and a person without a next alarm carries one of
\* no_alarms, no_enabled, no_future.
C36_NoteIffNoNextAlarm ==
    \A slug \in DOMAIN person_states :
        LET state == person_states[slug]
        IN  /\ state.note = None <=> state.next_alarm_time # None
            /\ state.next_alarm_time = None =>
                   /\ state.note # None
                   /\ state.note[1] \in EmptyNotes

\* no handler is suspended in its save and no timer callback waits to run
NoOperationInFlight == saves = <<>> /\ tasks = <<>>
\* the instants of the schedule that are set
ScheduledTimes(schedule) ==
    {schedule[key][1] : key \in {k \in DOMAIN schedule : schedule[k] # None}}
SelectionConsistent(state) ==
    /\ state.next_alarm_key = None <=> state.next_alarm_time = None
    /\ state.next_alarm_key # None =>
           /\ state.next_alarm_key[1] \in KeysOf(state.normalized_alarms)
           /\ state.schedule[state.next_alarm_key[1]] = state.next_alarm_time
           /\ \A t \in ScheduledTimes(state.schedule) : state.next_alarm_time[1] <= t
    /\ DOMAIN state.schedule = KeysOf(state.normalized_alarms)

\* C37: in every state where no operation is in flight the selection of each
\* person is consistent: next_alarm_key is none exactly when next_alarm_time
\* is none; when set, the key is a key of normalized_alarms, the schedule
\* holds next_alarm_time for it and no set schedule value is earlier; and the
\* schedule has exactly the keys of normalized_alarms.
C37_SelectionIsConsistent ==
    NoOperationInFlight =>
        \A slug \in DOMAIN person_states : SelectionConsistent(person_states[slug])
\* nothing in flight after a rollover, and a person with two alarms of which
\* one is selected and the other has no next instant
C37_Witness ==
    /\ NoOperationInFlight
    /\ \E slug \in DOMAIN person_states :
           LET state == person_states[slug]
           IN  /\ state.next_alarm_key # None
               /\ state.previous_alarm_key # None
               /\ \E key \in DOMAIN state.schedule : state.schedule[key] = None

\* async_unload has returned: the listeners are gone and its save is done
TeardownDone ==
    /\ ~listening
    /\ \A i \in 1..Len(saves) : saves[i].op # "unload"

\* C38: once the teardown has completed the coordinator stays quiescent: no
\* step, and so no rollover or refresh-timeout callback queued by a timer that
\* fired before the teardown, changes a PersonState, arms a timer, writes a
\* snapshot over the final one or sends a notification.
C38_QuiescentAfterTeardown ==
    [][TeardownDone =>
          /\ person_states' = person_states
          /\ time_listeners' = time_listeners
          /\ call_later_timers' = call_later_timers
          /\ store' = store
          /\ ~effect'.notified
      ]_vars

\* the snapshot shows a refresh of the person as started and not ended
StoredRefreshOpen(slug) ==
    /\ store # None
    /\ slug \in DOMAIN store[1]
    /\ _restore_datetime(store[1][slug].last_refresh_start) # None
    /\ \/ _restore_datetime(store[1][slug].last_refresh_end) = None
       \/ _restore_datetime(store[1][slug].last_refresh_end)[1]
             < _restore_datetime(store[1][slug].last_refresh_start)[1]

\* C39: the refresh-liveness sub-state does not survive a restart.  Right
\* after the restore every person has refresh_problem false, no refresh token,
\* no refresh-timeout handle and no refresh-timeout timer, whether the refresh
\* was pending or had timed out when the snapshot was written; and
\* refresh_problem is raised only by a timeout whose token is the one the
\* person holds in this run, so never by a refresh of the run before.
C39_RefreshStateNotRestored ==
    [][/\ effect'.op = "setup" =>
              \A slug \in DOMAIN person_states' :
                  /\ ~person_states'[slug].refresh_problem
                  /\ person_states'[slug].refresh_timeout_token = None
                  /\ person_states'[slug].refresh_timer_cancel = None
                  /\ \A t \in call_later_timers' : t.slug # slug
                  /\ \A i \in 1..Len(tasks') : tasks'[i].slug # slug
       /\ \A slug \in DOMAIN person_states' :
              (/\ person_states'[slug].refresh_problem
               /\ slug \in DOMAIN person_states => ~person_states[slug].refresh_problem)
              => /\ slug \in DOMAIN person_states
                 /\ tasks # <<>>
                 /\ Head(tasks).kind = "refresh_timeout"
                 /\ Head(tasks).slug = slug
                 /\ Some(Head(tasks).token) = person_states[slug].refresh_timeout_token
      ]_vars
\* a restore has just run over a snapshot that shows an open refresh
C39_Witness ==
    /\ effect.op = "setup"
    /\ \E slug \in DOMAIN person_states :
           /\ StoredRefreshOpen(slug)
           /\ person_states[slug].last_refresh_start # None
           /\ ~person_states[slug].refresh_problem

\* the state an event for the display name goes to: the one under the slug of
\* the name, else the one that carries the name, else a new one under the slug
NamedStates(states, person) ==
    IF _person_slug(person) \in DOMAIN states THEN {_person_slug(person)}
    ELSE IF \E s \in DOMAIN states : states[s].person = person
    THEN {s \in DOMAIN states : states[s].person = person}
    ELSE {_person_slug(person)}
OthersUntouched(slug) ==
    /\ \A other \in DOMAIN person_states \ {slug} :
           /\ other \in DOMAIN person_states'
           /\ person_states'[other] = person_states[other]
    /\ DOMAIN person_states' \subseteq DOMAIN person_states \cup {slug}
    /\ {l \in time_listeners' : l.slug # slug} = {l \in time_listeners : l.slug # slug}
    /\ {t \in call_later_timers' : t.slug # slug}
          = {t \in call_later_timers : t.slug # slug}

\* C40: persons are isolated and never removed.  A step for one person, be
\* it an alarm-data event, a refresh-start event, a rollover or a refresh
\* timeout, changes no field and no timer of another person, and a step for no
\* person changes no person; an event goes to exactly one state,
\* the one under the slug of its display name, else the one carrying that name,
\* else a new one; and no step of the running coordinator removes a person.
C40_PersonsAreIsolated ==
    [][effect'.op # "setup" =>
          /\ DOMAIN person_states \subseteq DOMAIN person_states'
          /\ OthersUntouched(effect'.slug)
          /\ effect'.op \in HandlerOps =>
                 /\ effect'.slug \in DOMAIN person_states'
                 /\ NamedStates(person_states, person_states'[effect'.slug].person)
                       = {effect'.slug}
      ]_vars
\* two persons are known, one of them kept under a key that is not the slug
\* of its name, and an event for that one has just been handled
C40_Witness ==
    /\ Cardinality(DOMAIN person_states) = 2
    /\ effect.op \in HandlerOps
    /\ effect.slug # _person_slug(person_states[effect.slug].person)

====
